---------------------------- MODULE Spec2Model ----------------------------
(***************************************************************************)
(* State-machine model of the skeleton decoration engine, injectSkeleton   *)
(* of src/src/skeleton.ts: the participation selector, the geometry        *)
(* function, the decoration factory and the lifecycle driven by the        *)
(* enablement MutationObserver and the ResizeObservers.                     *)
(*                                                                         *)
(* Lengths are integers in tenths of a CSS pixel, so the code's 0.1px      *)
(* inset is the integer 1.                                                  *)
(***************************************************************************)
EXTENDS Integers, Sequences, FiniteSets, TLC

(***************************************************************************)
(* Bounds of the model.                                                     *)
(***************************************************************************)
\* An element's height is 0 or 1..MaxLines line heights.
MaxLines == 2
\* ResizeObservers that inject() created and no longer references while they
\* are still connected.
MaxLeaked == 1
\* The wrapped lines of the text whose decoration geometry is examined.
MaxTextLines == 3
\* The mutation records an overlay's observer has queued at most.
MaxRecords == 2
\* The overlay decorations one attach creates at most.
MaxDecorations == 2

(***************************************************************************)
(* The document: a root element with a chain of two descendants.            *)
(***************************************************************************)
Root == 0
Elements == {0, 1, 2}
Parent == [e \in Elements \ {Root} |-> e - 1]

\* a is a proper ancestor of e
RECURSIVE IsDescendant(_, _)
IsDescendant(e, a) ==
    /\ e # Root
    /\ \/ Parent[e] = a
       \/ IsDescendant(Parent[e], a)

\* A value of an attribute or option that is not set.
Absent == "absent"

\* An object without properties: an undefined entry of the per-tag table, an
\* element without data-* attributes.
NoOptions == [f \in {} |-> ""]

\* The skeleton types an element can be marked with (data-sk-t).
SkeletonTypes == {"none", "hide", "rect", "pill", "round", "text"}

\* Layout metrics of the page, in tenths of a pixel.
LineHeight == 200
Width == 1000
LeadGap == 30
TrailGap == 50

\* The sizes layout can give an element: no width, no height, or Width by
\* 1..MaxLines lines.
Sizes ==
    {[w |-> 0, h |-> LineHeight], [w |-> Width, h |-> 0]}
        \cup {[w |-> Width, h |-> k * LineHeight] : k \in 1..MaxLines}

\* What the page author wrote on an element: tag, data-sk-t, data-sk-id,
\* its other data-sk-* attributes, whether it holds a text node beside its
\* child elements, and its inline opacity.
ElementDescriptions ==
    [tag : {"div", "img", "x-card"},
     skT : {Absent, "none", "rect"},
     skId : {Absent, "other", "default"},
     data : {NoOptions},
     text : {FALSE},
     opacity : {""}]

El(tag, skT, text, opacity) ==
    [tag |-> tag, skT |-> skT, skId |-> Absent, data |-> NoOptions,
     text |-> text, opacity |-> opacity]

\* Half of the gap between a glyph box and its line box.
HalfLeading == 20

\* The pages the lifecycle is exercised on. inline is the root's inline
\* style.position before attach, css the position its stylesheet gives it,
\* debug the debug argument of injectSkeleton, resizable the elements whose
\* size layout changes while the page lives, leading the half-leading of
\* the page's font.
Documents ==
    { [els |-> <<El("div", Absent, FALSE, ""), El("div", "none", FALSE, "0.5"),
                 El("img", Absent, FALSE, "")>>,
       inline |-> "", css |-> "static", debug |-> FALSE, resizable |-> {2},
       leading |-> HalfLeading],
      [els |-> <<El("div", Absent, TRUE, ""), El("div", "hide", FALSE, "0.5"),
                 El("div", Absent, TRUE, "")>>,
       inline |-> "absolute", css |-> "static", debug |-> FALSE,
       resizable |-> {0}, leading |-> HalfLeading],
      [els |-> <<El("div", Absent, FALSE, ""), El("div", Absent, TRUE, "0.5"),
                 El("img", "rect", FALSE, "")>>,
       inline |-> "", css |-> "absolute", debug |-> FALSE, resizable |-> {1},
       leading |-> HalfLeading],
      [els |-> <<El("x-card", Absent, FALSE, ""), El("div", "text", TRUE, ""),
                 El("div", "pill", FALSE, "0.5")>>,
       inline |-> "", css |-> "static", debug |-> TRUE, resizable |-> {2},
       leading |-> HalfLeading] }

\* Every way of marking the three elements, for the participation rules.
Pages ==
    {[els |-> <<r, a, d>>, inline |-> "", css |-> "static", debug |-> FALSE,
      resizable |-> {}, leading |-> HalfLeading] :
        r \in {x \in ElementDescriptions : x.skId # "default"},
        a \in ElementDescriptions,
        d \in {x \in ElementDescriptions : x.skId # "default"}}

\* The data-sk-* attributes, beside data-sk-t and data-sk-id, tried on the
\* element whose options and geometry are examined.
OptionData ==
    {NoOptions, [skSy |-> "1"], [skSy |-> "2"], [skW |-> "50%", skH |-> "10px"],
     [skTx |-> "4px", skTy |-> "-2px"], [skSx |-> "0.8", skO |-> "left"],
     [skR |-> "xl"], [skTT |-> "loose"]}

OptionDescriptions ==
    [tag : {"div", "img", "x-card"},
     skT : SkeletonTypes \cup {Absent},
     skId : {Absent},
     data : OptionData,
     text : BOOLEAN,
     opacity : {""}]

\* A plain root with one examined child, in fonts with and without leading.
OptionPages ==
    {[els |-> <<El("div", Absent, FALSE, ""), a, El("div", Absent, FALSE, "")>>,
      inline |-> "", css |-> "static", debug |-> FALSE, resizable |-> {1},
      leading |-> l] : a \in OptionDescriptions, l \in {0, HalfLeading}}

\* The sizes layout gives the examined element.
TextSizes ==
    {[w |-> 0, h |-> LineHeight], [w |-> Width, h |-> 0]}
        \cup {[w |-> Width, h |-> k * LineHeight] : k \in 1..MaxTextLines}

VARIABLES
    doc,               \* the page: the elements as authored, the root's position
    debug,             \* injectSkeleton's debug parameter
    configuration,     \* const configuration: defaults and per-tag table
    size,              \* layout size of each element while in the document
    hasParent,         \* element.parentElement of the root is not null
    dataSk,            \* the root's data-sk attribute
    observedSk,        \* the value the controller last read from data-sk
    stylePosition,     \* root.style.position (inline)
    opacity,           \* el.style.opacity (inline) of each element
    visibility,        \* el.style.visibility (inline) of each element
    appended,          \* decoration nodes that are children of the root
    position,          \* const position, the root's computed position at attach
    skeletonObserver,  \* let skeletonObserver
    leaked,            \* connected observers of earlier inject() calls
    skeletonElements,  \* const skeletonElements (Map)
    enabledObserver,   \* the MutationObserver: connected, records queued
    removedObserver,   \* the ResizeObserver watching for the root's removal
    wasDisabled,       \* history: a disable signal has removed decorations
    selector,          \* const selector, built when injectSkeleton ran
    mode,              \* export const mode: 'anchor' or 'float'
    container,         \* the container variant: its children and its observer
    variant,           \* which injectOverlay is attached
    ov,                \* element.dataset.ov of each element
    inert,             \* element.inert of each element
    hasBox,            \* the element has a border box that is not 0 x 0
    records,           \* mutation records queued for the overlay's observer
    decorations,       \* const decorations (WeakMap) / element._overlay
    overlays,          \* the overlay nodes attached to the document
    created,           \* how many overlay nodes were created so far
    resizeObserver,    \* the overlay's ResizeObserver
    mutationObserver,  \* the overlay's MutationObserver is connected
    anchorName,        \* element.style.anchorName of each element
    inlinePosition,    \* element.style.position as injectOverlay writes it
    component          \* the Overlay component of solid.tsx: its signals

\* The state of injectOverlay and of the page it watches.
overlayVars ==
    <<variant, ov, inert, hasBox, records, decorations, overlays, created,
      resizeObserver, mutationObserver, anchorName, inlinePosition, component>>

vars ==
    <<doc, debug, configuration, size, hasParent, dataSk, observedSk, stylePosition, opacity,
      visibility, appended, position, skeletonObserver, leaked,
      skeletonElements, enabledObserver, removedObserver, wasDisabled,
      selector, mode, container, overlayVars>>

\* What no handler of injectSkeleton in skeleton.ts writes.
pageVars == <<doc, debug, configuration, position, selector, mode, container, overlayVars>>

\* No container variant is attached to the page.
NoContainer ==
    /\ mode = "float"
    /\ container = [children |-> {}, observed |-> {}, pending |-> FALSE]

\* No injectOverlay is attached to the page.
NoOverlay ==
    /\ variant = "none"
    /\ ov = [e \in Elements |-> Absent]
    /\ hasBox = [e \in Elements |-> TRUE]
    /\ records = <<>>
    /\ decorations = [e \in Elements |-> 0]
    /\ overlays = <<>>
    /\ created = 0
    /\ resizeObserver = [observed |-> {}, pending |-> {}]
    /\ mutationObserver = FALSE
    /\ component = [parent |-> FALSE, cleanup |-> FALSE, disposed |-> FALSE]

\* No script has set inert or an anchor name on an element.
Untouched ==
    /\ inert = [e \in Elements |-> FALSE]
    /\ anchorName = [e \in Elements |-> <<>>]
    /\ inlinePosition = [e \in Elements |-> ""]

(***************************************************************************)
(* configuration (module state of skeleton.ts).                             *)
(***************************************************************************)
\* An option layer is a function from the names of the fields it sets.
\* The configuration the module ships.
Shipped ==
    [defaults |->
        [skR |-> "m", skTT |-> "trim", skO |-> "center", skSx |-> "1",
         skSy |-> "1", skTx |-> "0px", skTy |-> "0px"],
     elements |->
        [tag \in {"img", "picture", "video", "svg"} |-> [skT |-> "round"]]]

\* { ...a, ...b }
Spread(a, b) ==
    [f \in DOMAIN a \cup DOMAIN b |-> IF f \in DOMAIN b THEN b[f] ELSE a[f]]

\* configuration after setSkeletonConfiguration(overrides)
setSkeletonConfiguration(config, overrides) ==
    [defaults |-> Spread(config.defaults, overrides.defaults),
     elements |-> Spread(config.elements, overrides.elements)]

\* The configurations the pages are scanned under: the shipped one, and one
\* that a page script has overridden before attach.
Configurations ==
    {Shipped,
     setSkeletonConfiguration(Shipped,
        [defaults |-> [skR |-> "l"],
         elements |-> [tag \in {"img", "x-card"} |->
                          IF tag = "img" THEN [skT |-> "round", skR |-> "s"]
                          ELSE [skT |-> "none"]]])}

defaults == configuration.defaults

elements(tag) ==
    IF tag \in DOMAIN configuration.elements
    THEN configuration.elements[tag]
    ELSE NoOptions

ConfiguredTags == DOMAIN configuration.elements

Get(options, f) == IF f \in DOMAIN options THEN options[f] ELSE Absent

\* element.dataset: the data-* attributes that are present. Only the root
\* carries data-sk.
dataset(e) ==
    LET d == doc.els[e + 1]
        t == IF d.skT = Absent THEN NoOptions ELSE [skT |-> d.skT]
        i == IF d.skId = Absent THEN NoOptions ELSE [skId |-> d.skId]
        s == IF e = Root /\ dataSk # Absent THEN [sk |-> dataSk] ELSE NoOptions
    IN  Spread(Spread(Spread(t, i), d.data), s)

localName(e) == doc.els[e + 1].tag


(***************************************************************************)
(* Layout, as the browser reports it.                                       *)
(***************************************************************************)
\* element.getBoundingClientRect(): all zero once the root is detached.
getBoundingClientRect(e) ==
    IF hasParent
    THEN [x |-> 40 * (e + 1), y |-> 60 * (e + 1), w |-> size[e].w, h |-> size[e].h]
    ELSE [x |-> 0, y |-> 0, w |-> 0, h |-> 0]

\* The size a ResizeObserver compares against its last report.
HasBox(e) ==
    LET r == getBoundingClientRect(e) IN r.w # 0 \/ r.h # 0

\* Range.getBoundingClientRect() of the first and of the last character of
\* the element's text node, and the computed line-height: the text starts
\* LeadGap after the element's left edge, fills its height and ends
\* TrailGap before its right edge.
MeasureText(rect) ==
    [lineHeight |-> LineHeight,
     startTop |-> rect.y + doc.leading,
     startHeight |-> LineHeight - 2 * doc.leading,
     startLeft |-> rect.x + LeadGap,
     endRight |-> rect.x + rect.w - TrailGap,
     endBottom |-> rect.y + rect.h - doc.leading]

\* element.childNodes.length > element.childElementCount
probablyText(e) == doc.els[e + 1].text

\* element.localName.includes('-')
customElement(e) == localName(e) \in {"x-card"}

\* Math.floor(a / b)
Floor(a, b) == a \div b

\* Math.round(a / b) for b > 0: halves round up.
Round(a, b) == (2 * a + b) \div (2 * b)

(***************************************************************************)
(* buildSelector and Element.matches.                                       *)
(***************************************************************************)
implicitHide == {tag \in ConfiguredTags : Get(elements(tag), "skT") = "none"}

implicitShow ==
    {tag \in ConfiguredTags : Get(elements(tag), "skT") \notin {Absent, "none"}}

\* The selector is :not(:is(...)) of six exclusion rules; it is kept as the
\* parameters the rules are built from.
buildSelector(id, implicitNone, implicitType) ==
    [id |-> id, implicitNone |-> implicitNone, implicitType |-> implicitType]

\* The selector whose rule for the descendants of a typed element also takes
\* descendants that carry a marker: [data-sk-t]:not([data-sk-t="none"]) *
matchesCoverMarked(e, sel, scope) ==
    LET d(x) == doc.els[x + 1]
        inScope(x) == IsDescendant(x, scope)
        foreign(x) == d(x).skId # Absent /\ d(x).skId # sel.id
        marked(x) == d(x).skT # Absent
    IN  ~ \/ inScope(e) /\ foreign(e)
          \/ \E x \in Elements : inScope(x) /\ foreign(x) /\ IsDescendant(e, x)
          \/ inScope(e) /\ d(e).skT = "none"
          \/ \E x \in Elements :
                 /\ inScope(x) /\ marked(x) /\ d(x).skT # "none"
                 /\ IsDescendant(e, x)
          \/ inScope(e) /\ d(e).tag \in sel.implicitNone /\ ~marked(e)
          \/ /\ ~marked(e)
             /\ \E x \in Elements :
                    /\ inScope(x) /\ d(x).tag \in sel.implicitType /\ ~marked(x)
                    /\ IsDescendant(e, x)

\* The selector without its rule for the descendants of another subtree.
matchesForeignItself(e, sel, scope) ==
    LET d(x) == doc.els[x + 1]
        inScope(x) == IsDescendant(x, scope)
        foreign(x) == d(x).skId # Absent /\ d(x).skId # sel.id
        marked(x) == d(x).skT # Absent
    IN  ~ \/ inScope(e) /\ foreign(e)
          \/ inScope(e) /\ d(e).skT = "none"
          \/ /\ ~marked(e)
             /\ \E x \in Elements :
                    /\ inScope(x) /\ marked(x) /\ d(x).skT # "none"
                    /\ IsDescendant(e, x)
          \/ inScope(e) /\ d(e).tag \in sel.implicitNone /\ ~marked(e)
          \/ /\ ~marked(e)
             /\ \E x \in Elements :
                    /\ inScope(x) /\ d(x).tag \in sel.implicitType /\ ~marked(x)
                    /\ IsDescendant(e, x)

\* The selector without its rule for data-sk-t="none".
matchesWithoutNone(e, sel, scope) ==
    LET d(x) == doc.els[x + 1]
        inScope(x) == IsDescendant(x, scope)
        foreign(x) == d(x).skId # Absent /\ d(x).skId # sel.id
        marked(x) == d(x).skT # Absent
    IN  ~ \/ inScope(e) /\ foreign(e)
          \/ \E x \in Elements : inScope(x) /\ foreign(x) /\ IsDescendant(e, x)
          \/ /\ ~marked(e)
             /\ \E x \in Elements :
                    /\ inScope(x) /\ marked(x) /\ d(x).skT # "none"
                    /\ IsDescendant(e, x)
          \/ inScope(e) /\ d(e).tag \in sel.implicitNone /\ ~marked(e)
          \/ /\ ~marked(e)
             /\ \E x \in Elements :
                    /\ inScope(x) /\ d(x).tag \in sel.implicitType /\ ~marked(x)
                    /\ IsDescendant(e, x)

\* e.matches(sel) with :scope bound to scope, and membership of e in
\* scope.querySelectorAll(sel) when e is a descendant of scope.
matches(e, sel, scope) ==
    LET d(x) == doc.els[x + 1]
        inScope(x) == IsDescendant(x, scope)
        foreign(x) == d(x).skId # Absent /\ d(x).skId # sel.id
        marked(x) == d(x).skT # Absent
    IN  ~ \/ inScope(e) /\ foreign(e)
          \/ \E x \in Elements : inScope(x) /\ foreign(x) /\ IsDescendant(e, x)
          \/ inScope(e) /\ d(e).skT = "none"
          \/ /\ ~marked(e)
             /\ \E x \in Elements :
                    /\ inScope(x) /\ marked(x) /\ d(x).skT # "none"
                    /\ IsDescendant(e, x)
          \/ inScope(e) /\ d(e).tag \in sel.implicitNone /\ ~marked(e)
          \/ /\ ~marked(e)
             /\ \E x \in Elements :
                    /\ inScope(x) /\ d(x).tag \in sel.implicitType /\ ~marked(x)
                    /\ IsDescendant(e, x)

\* const id, const selector
id == IF doc.els[Root + 1].skId = Absent THEN "default" ELSE doc.els[Root + 1].skId

\* The selector injectSkeleton builds from the per-tag table it finds.
Selector == buildSelector(id, implicitHide, implicitShow)

\* [...[element].filter(matches), ...element.querySelectorAll(selector)]
candidates ==
    {e \in Elements : (e = Root \/ IsDescendant(e, Root)) /\ matches(e, selector, Root)}

(***************************************************************************)
(* computePositions and createSkeleton.                                     *)
(***************************************************************************)
\* The rectangles of one text node with the 0.1px inset on the first line
\* alone.
TextLinesFirstInset(rect) ==
    LET m == MeasureText(rect)
        top == m.startTop - rect.y - (m.lineHeight - m.startHeight) \div 2
        left == m.startLeft - rect.x
        right == (rect.x + rect.w) - m.endRight
        lines == Round(m.endBottom - m.startTop, m.lineHeight)
        first(line) == IF line = 0 THEN 1 ELSE 0
        final(line) == IF line = lines - 1 THEN 1 ELSE 0
    IN  [i \in 1..lines |->
            [x |-> (left + 1) * first(i - 1),
             y |-> top + (i - 1) * m.lineHeight,
             w |-> rect.w - left * first(i - 1) - right * final(i - 1),
             h |-> m.lineHeight]]

\* The rectangles of one text node: one per wrapped line.
TextLines(rect) ==
    LET m == MeasureText(rect)
        top == m.startTop - rect.y - (m.lineHeight - m.startHeight) \div 2
        left == m.startLeft - rect.x
        right == (rect.x + rect.w) - m.endRight
        lines == Round(m.endBottom - m.startTop, m.lineHeight)
        first(line) == IF line = 0 THEN 1 ELSE 0
        final(line) == IF line = lines - 1 THEN 1 ELSE 0
    IN  [i \in 1..lines |->
            [x |-> left * first(i - 1) + 1,
             y |-> top + (i - 1) * m.lineHeight,
             w |-> rect.w - left * first(i - 1) - right * final(i - 1),
             h |-> m.lineHeight]]

\* The classification without the test for custom elements.
computePositionsNoCustom(e, options, rect) ==
    LET skT == Get(options, "skT")
    IN  IF skT = Absent /\ ~customElement(e) /\ ~probablyText(e) THEN <<>>
        ELSE IF \/ skT \notin {Absent, "text"}
                \/ skT = "text" /\ ~probablyText(e)
        THEN <<[x |-> 0, y |-> 0, w |-> rect.w, h |-> rect.h]>>
        ELSE TextLines(rect)

computePositionsNoGuard(e, options, rect) ==
    LET skT == Get(options, "skT")
    IN  IF skT = Absent /\ ~customElement(e) /\ ~probablyText(e) THEN <<>>
        ELSE IF \/ skT \notin {Absent, "text"}
                \/ skT = "text" /\ ~probablyText(e)
                \/ customElement(e)
        THEN <<[x |-> 0, y |-> 0, w |-> rect.w, h |-> rect.h]>>
        ELSE TextLines(rect)

\* The guard testing the height alone.
computePositionsHeightOnly(e, options, rect) ==
    IF rect.h = 0 THEN <<>>
    ELSE computePositionsNoGuard(e, options, rect)

\* undefined and [] are both the empty sequence: the caller tests
\* !positions?.length.
computePositions(e, options, rect) ==
    IF rect.h = 0 \/ rect.w = 0 THEN <<>>
    ELSE computePositionsNoGuard(e, options, rect)

radii ==
    [none |-> "0px", hide |-> "0px", rect |-> "0px", pill |-> "1000px",
     round |-> "8px", text |-> "0.4lh", xs |-> "2px", s |-> "4px", m |-> "8px",
     l |-> "12px", xl |-> "16px"]

\* createSkeleton taking the scale-Y as resolved, whatever the kind.
createSkeletonPlainScale(e, line, options, skeletonRect, elementRect, containerRect, dbg) ==
    LET skM == IF "skT" \in DOMAIN options THEN options.skT
               ELSE IF skeletonRect.x > 0 THEN "text" ELSE "round"
    IN  [owner |-> e, line |-> line, fresh |-> TRUE,
         left |-> <<skeletonRect.x + elementRect.x - containerRect.x,
                    Get(options, "skTx")>>,
         top |-> <<skeletonRect.y + elementRect.y - containerRect.y,
                   Get(options, "skTy")>>,
         width |-> IF "skW" \in DOMAIN options THEN <<0, options.skW>>
                   ELSE <<skeletonRect.w, "px">>,
         height |-> IF "skH" \in DOMAIN options THEN <<0, options.skH>>
                    ELSE <<skeletonRect.h, "px">>,
         scale |-> <<Get(options, "skSx"), Get(options, "skSy")>>,
         transformOrigin |-> Get(options, "skO"),
         borderRadius |-> radii[IF skM = "round" THEN options.skR ELSE skM],
         debug |-> dbg]

\* A decoration node. owner, line and fresh stand for the node's identity:
\* the element and rectangle it was created for, and whether the running
\* handler created it.
createSkeleton(e, line, options, skeletonRect, elementRect, containerRect, dbg) ==
    LET skM == IF "skT" \in DOMAIN options THEN options.skT
               ELSE IF skeletonRect.x > 0 THEN "text" ELSE "round"
        skSy == IF Get(options, "skSy") # "1" THEN Get(options, "skSy")
                ELSE IF skM = "text" THEN "0.5" ELSE "1"
    IN  [owner |-> e, line |-> line, fresh |-> TRUE,
         left |-> <<skeletonRect.x + elementRect.x - containerRect.x,
                    Get(options, "skTx")>>,
         top |-> <<skeletonRect.y + elementRect.y - containerRect.y,
                   Get(options, "skTy")>>,
         width |-> IF "skW" \in DOMAIN options THEN <<0, options.skW>>
                   ELSE <<skeletonRect.w, "px">>,
         height |-> IF "skH" \in DOMAIN options THEN <<0, options.skH>>
                    ELSE <<skeletonRect.h, "px">>,
         scale |-> <<Get(options, "skSx"), skSy>>,
         transformOrigin |-> Get(options, "skO"),
         borderRadius |-> radii[IF skM = "round" THEN options.skR ELSE skM],
         debug |-> dbg]

(***************************************************************************)
(* Observers.  A ResizeObserver is the set of elements it observes and     *)
(* whether a callback of it is due; disconnected and never created are the *)
(* same observer of nothing.                                               *)
(***************************************************************************)
Disconnected == [observed |-> {}, pending |-> FALSE]

Connected(observer) == observer.observed # {}

\* The observer after layout changed the boxes of the elements in changed.
Notified(observer, changed) ==
    IF observer.observed \cap changed # {}
    THEN [observer EXCEPT !.pending = TRUE]
    ELSE observer

\* observe() reporting also the elements that were observed already.
ObservingAnew(observer, els) ==
    [observed |-> observer.observed \cup els,
     pending |-> observer.pending \/ \E e \in els : HasBox(e)]

\* observer.observe(el) for every el of els: an element observed for the
\* first time is reported when it has a box.
Observing(observer, els) ==
    [observed |-> observer.observed \cup els,
     pending |-> observer.pending
                    \/ \E e \in els \ observer.observed : HasBox(e)]

(***************************************************************************)
(* The state inject, eject and the ResizeObserver callback work on, as one *)
(* record c, so that the callbacks of one delivery can be run in sequence. *)
(***************************************************************************)
ctrlVars ==
    <<stylePosition, opacity, visibility, appended, skeletonElements,
      skeletonObserver, leaked>>

Ctrl ==
    [stylePosition |-> stylePosition, opacity |-> opacity,
     visibility |-> visibility, appended |-> appended,
     skeletonElements |-> skeletonElements,
     skeletonObserver |-> skeletonObserver, leaked |-> leaked]

Install(c) ==
    /\ stylePosition' = c.stylePosition
    /\ opacity' = c.opacity
    /\ visibility' = c.visibility
    /\ appended' = c.appended
    /\ skeletonElements' = c.skeletonElements
    /\ skeletonObserver' = c.skeletonObserver
    /\ leaked' = c.leaked

NoEntries == [e \in {} |-> {}]

\* The decoration nodes the Map tracks.
TrackedSkeletons(c) ==
    UNION {c.skeletonElements[e].skeletons : e \in DOMAIN c.skeletonElements}

\* el.style.<field> = skeletonElements.get(el).<field> for every entry
RestoredStyle(c, field) ==
    [e \in Elements |->
        IF e \in DOMAIN c.skeletonElements THEN c.skeletonElements[e][field]
        ELSE c[field][e]]

\* Nodes that were there before the running handler.
Aged(nodes) == {[n EXCEPT !.fresh = FALSE] : n \in nodes}

(***************************************************************************)
(* inject, eject and the ResizeObserver callback of inject.                 *)
(***************************************************************************)
\* The observer of the previous inject() stays connected when inject() runs
\* again without an eject() in between. Observers that observe the same
\* elements and are both due or both not behave alike and are kept once.
leakedAfterInject(c) ==
    IF Connected(c.skeletonObserver) THEN c.leaked \cup {c.skeletonObserver}
    ELSE c.leaked

CanInject(c) == Cardinality(leakedAfterInject(c)) <= MaxLeaked

inject(c) ==
    [c EXCEPT
        !.stylePosition = IF position \in {"", "static"} THEN "relative" ELSE @,
        !.skeletonObserver = Observing(Disconnected, {Root}),
        !.leaked = leakedAfterInject(c)]

\* eject leaving the nodes attached
ejectSkeletonsKept(nodes, tracked) == nodes

\* skeletons.forEach(skeleton => skeleton.remove()) of eject
ejectSkeletons(nodes, tracked) == nodes \ tracked

\* element.style.position = position
ejectPosition(inline) == position

\* eject without the disconnect
ejectObserverKept(observer) == observer

\* skeletonObserver?.disconnect()
ejectObserver(observer) == Disconnected

eject(c) ==
    [c EXCEPT
        !.stylePosition = ejectPosition(@),
        !.skeletonObserver = ejectObserver(@),
        !.opacity = RestoredStyle(c, "opacity"),
        !.visibility = RestoredStyle(c, "visibility"),
        !.appended = ejectSkeletons(@, TrackedSkeletons(c)),
        !.skeletonElements = NoEntries]

\* The callback leaving the nodes of the previous run attached
clearSkeletonsKept(nodes, tracked) == nodes

\* skeletons.forEach(skeleton => skeleton.remove()) of the callback
clearSkeletons(nodes, tracked) == nodes \ tracked

\* The merge with the layers in the opposite order.
resolveOptionsReversed(e) ==
    Spread(Spread(dataset(e), elements(localName(e))), defaults)

\* { ...defaults, ...elements[element.localName], ...element.dataset }
resolveOptions(e) ==
    Spread(Spread(defaults, elements(localName(e))), dataset(e))

\* The candidates loop: the entries set in skeletonElements, skeletons: [].
\* op and vis are the inline styles after the restore loop.
measuredEntries(op, vis) ==
    LET measured(e) ==
            computePositions(e, resolveOptions(e), getBoundingClientRect(e))
        kept == {e \in candidates : Len(measured(e)) # 0}
    IN  [e \in kept |->
            [opacity |-> op[e], visibility |-> vis[e],
             options |-> resolveOptions(e),
             rect |-> getBoundingClientRect(e),
             positions |-> measured(e),
             skeletons |-> {}]]

\* The skeletons created for one entry: none for the type hide.
skeletonsOf(e, entry) ==
    IF Get(entry.options, "skT") = "hide" THEN {}
    ELSE {createSkeleton(e, i, entry.options, entry.positions[i], entry.rect,
                         getBoundingClientRect(Root), debug) :
            i \in 1..Len(entry.positions)}

\* The elements the callback passes to observer.observe.
decorated(entries) ==
    {e \in DOMAIN entries : Get(entries[e].options, "skT") # "hide"}

\* The callback of a ResizeObserver that inject created: what it does to the
\* Map, the styles and the root's children.
recompute(c) ==
    LET op == RestoredStyle(c, "opacity")
        vis == RestoredStyle(c, "visibility")
        entries == measuredEntries(op, vis)
    IN  [c EXCEPT
            !.skeletonElements =
                [e \in DOMAIN entries |->
                    [entries[e] EXCEPT !.skeletons = skeletonsOf(e, entries[e])]],
            !.opacity =
                [e \in Elements |->
                    IF e \in DOMAIN entries /\ ~debug /\ e # Root THEN "0"
                    ELSE op[e]],
            !.visibility =
                [e \in Elements |->
                    IF e \in DOMAIN entries /\ ~debug /\ e = Root THEN "hidden"
                    ELSE vis[e]],
            !.appended =
                Aged(clearSkeletons(@, TrackedSkeletons(c)))
                    \cup UNION {skeletonsOf(e, entries[e]) : e \in DOMAIN entries}]

\* What the callback does to the observer it runs for.
afterCallback(observer) ==
    Observing([observer EXCEPT !.pending = FALSE],
              decorated(measuredEntries(opacity, visibility)))

RECURSIVE Times(_, _)
\* recompute run n times in a row
Times(n, c) == IF n = 0 THEN c ELSE Times(n - 1, recompute(c))

(***************************************************************************)
(* The state after injectSkeleton(element, debug) returned.                 *)
(***************************************************************************)
Init ==
    /\ doc \in Documents
    /\ debug = doc.debug
    /\ configuration = Shipped
    /\ selector = Selector
    /\ NoContainer
    /\ NoOverlay
    /\ Untouched
    /\ size = [e \in Elements |-> [w |-> Width, h |-> LineHeight]]
    /\ hasParent = TRUE
    /\ dataSk \in {Absent, "true"}
    /\ observedSk = dataSk
    /\ position = IF doc.inline # "" THEN doc.inline ELSE doc.css
    /\ opacity = [e \in Elements |-> doc.els[e + 1].opacity]
    /\ visibility = [e \in Elements |-> ""]
    /\ appended = {}
    /\ skeletonElements = NoEntries
    /\ leaked = {}
    /\ enabledObserver = [connected |-> TRUE, queued |-> FALSE]
    /\ removedObserver = [observed |-> {Root}, pending |-> TRUE]
    /\ wasDisabled = FALSE
    /\ IF dataSk = "true"
       THEN /\ stylePosition =
                   IF position \in {"", "static"} THEN "relative" ELSE doc.inline
            /\ skeletonObserver = [observed |-> {Root}, pending |-> TRUE]
       ELSE /\ stylePosition = doc.inline
            /\ skeletonObserver = Disconnected

(***************************************************************************)
(* What the page does: attribute writes, layout changes, removal.           *)
(***************************************************************************)
\* A layout change of the elements in changed reaches every observer.
Layout(changed) ==
    /\ skeletonObserver' = Notified(skeletonObserver, changed)
    /\ leaked' = {Notified(o, changed) : o \in leaked}
    /\ removedObserver' = Notified(removedObserver, changed)

\* element.dataset.sk = value. A write queues a mutation record also when
\* the value stays the same.
SetAttribute(value) ==
    /\ dataSk' = value
    /\ enabledObserver' =
           [enabledObserver EXCEPT !.queued = enabledObserver.connected]
    /\ UNCHANGED <<pageVars, size, hasParent, observedSk, ctrlVars,
                   removedObserver, wasDisabled>>

\* Layout gives an element another size.
Resize(e, s) ==
    /\ hasParent
    /\ e \in doc.resizable
    /\ s # size[e]
    /\ size' = [size EXCEPT ![e] = s]
    /\ Layout({e})
    /\ UNCHANGED <<pageVars, hasParent, dataSk, observedSk, stylePosition,
                   opacity, visibility, appended, skeletonElements,
                   enabledObserver, wasDisabled>>

\* The root is removed from, or put back under, its parent.
SetParent(present) ==
    /\ present # hasParent
    /\ hasParent' = present
    /\ Layout({e \in Elements : size[e].w # 0 \/ size[e].h # 0})
    /\ UNCHANGED <<pageVars, size, dataSk, observedSk, stylePosition, opacity,
                   visibility, appended, skeletonElements, enabledObserver,
                   wasDisabled>>

(***************************************************************************)
(* The handlers.  Mutation records are delivered in a microtask, before    *)
(* any ResizeObserver callback.  The callbacks of all ResizeObservers that *)
(* are due are run in one delivery, in the order the observers were        *)
(* constructed: removedObserver first.                                     *)
(***************************************************************************)
\* new MutationObserver(() => (element.dataset.sk === 'true' ? inject() : eject()))
EnabledCallback ==
    /\ enabledObserver.queued
    /\ enabledObserver' = [enabledObserver EXCEPT !.queued = FALSE]
    /\ observedSk' = dataSk
    /\ IF dataSk = "true"
       THEN CanInject(Ctrl) /\ Install(inject(Ctrl))
       ELSE Install(eject(Ctrl))
    /\ wasDisabled' = (wasDisabled \/ (dataSk # "true" /\ appended # {}))
    /\ UNCHANGED <<pageVars, size, hasParent, dataSk, removedObserver>>

\* The removal test inverted
removedCallbackInverted(c) == IF hasParent THEN eject(c) ELSE c

\* new ResizeObserver(() => !element.parentElement && eject())
removedCallback(c) == IF ~hasParent THEN eject(c) ELSE c

\* The observers of inject() whose callback a delivery runs, given the
\* state c that removedObserver's callback left.
Due(c) == {o \in c.leaked \cup {c.skeletonObserver} : o.pending}

DeliverResize ==
    LET c1 == IF removedObserver.pending THEN removedCallback(Ctrl) ELSE Ctrl
        c2 == Times(Cardinality(Due(c1)), c1)
    IN  /\ ~enabledObserver.queued
        /\ removedObserver.pending \/ Due(Ctrl) # {}
        /\ removedObserver' = [removedObserver EXCEPT !.pending = FALSE]
        /\ Install([c2 EXCEPT
                       !.skeletonObserver =
                           IF @.pending THEN afterCallback(@) ELSE @,
                       !.leaked =
                           {IF o.pending THEN afterCallback(o) ELSE o : o \in @}])
        /\ UNCHANGED <<pageVars, size, hasParent, dataSk, observedSk,
                       enabledObserver, wasDisabled>>

\* The function injectSkeleton returned.
Cleanup ==
    /\ enabledObserver' = [connected |-> FALSE, queued |-> FALSE]
    /\ removedObserver' = Disconnected
    /\ Install(eject(Ctrl))
    /\ UNCHANGED <<pageVars, size, hasParent, dataSk, observedSk, wasDisabled>>

Next ==
    \/ \E value \in {"true", "false"} : SetAttribute(value)
    \/ \E e \in Elements, s \in Sizes : Resize(e, s)
    \/ \E present \in BOOLEAN : SetParent(present)
    \/ EnabledCallback
    \/ DeliverResize
    \/ Cleanup

Spec == Init /\ [][Next]_vars

(***************************************************************************)
(* The same controller attached, with data-sk="true", to every page of     *)
(* Pages: the size watcher fires, the root is removed and put back, the    *)
(* controller is disposed.                                                  *)
(***************************************************************************)
InitPages ==
    /\ doc \in Pages
    /\ debug = doc.debug
    /\ configuration \in Configurations
    /\ selector = Selector
    /\ NoContainer
    /\ NoOverlay
    /\ Untouched
    /\ size = [e \in Elements |-> [w |-> Width, h |-> LineHeight]]
    /\ hasParent = TRUE
    /\ dataSk = "true"
    /\ observedSk = dataSk
    /\ position = IF doc.inline # "" THEN doc.inline ELSE doc.css
    /\ opacity = [e \in Elements |-> doc.els[e + 1].opacity]
    /\ visibility = [e \in Elements |-> ""]
    /\ appended = {}
    /\ skeletonElements = NoEntries
    /\ leaked = {}
    /\ enabledObserver = [connected |-> TRUE, queued |-> FALSE]
    /\ removedObserver = [observed |-> {Root}, pending |-> TRUE]
    /\ wasDisabled = FALSE
    /\ stylePosition = IF position \in {"", "static"} THEN "relative" ELSE doc.inline
    /\ skeletonObserver = [observed |-> {Root}, pending |-> TRUE]

NextPages ==
    \/ \E present \in BOOLEAN : SetParent(present)
    \/ DeliverResize
    \/ Cleanup

SpecPages == InitPages /\ [][NextPages]_vars

(***************************************************************************)
(* The same controller attached, with data-sk="true", to the pages of      *)
(* OptionPages: layout wraps the examined element's text onto more or       *)
(* fewer lines and the size watcher recomputes its decorations.             *)
(***************************************************************************)
InitOptions ==
    /\ doc \in OptionPages
    /\ debug = doc.debug
    /\ configuration \in Configurations
    /\ selector = Selector
    /\ NoContainer
    /\ NoOverlay
    /\ Untouched
    /\ size = [e \in Elements |-> [w |-> Width, h |-> LineHeight]]
    /\ hasParent = TRUE
    /\ dataSk = "true"
    /\ observedSk = dataSk
    /\ position = IF doc.inline # "" THEN doc.inline ELSE doc.css
    /\ opacity = [e \in Elements |-> doc.els[e + 1].opacity]
    /\ visibility = [e \in Elements |-> ""]
    /\ appended = {}
    /\ skeletonElements = NoEntries
    /\ leaked = {}
    /\ enabledObserver = [connected |-> TRUE, queued |-> FALSE]
    /\ removedObserver = [observed |-> {Root}, pending |-> TRUE]
    /\ wasDisabled = FALSE
    /\ stylePosition = IF position \in {"", "static"} THEN "relative" ELSE doc.inline
    /\ skeletonObserver = [observed |-> {Root}, pending |-> TRUE]

NextOptions ==
    \/ \E e \in Elements, s \in TextSizes : Resize(e, s)
    \/ DeliverResize

SpecOptions == InitOptions /\ [][NextOptions]_vars

(***************************************************************************)
(* The controller of skeleton.ts attached, with data-sk="true", while a     *)
(* page script changes the per-tag table with setSkeletonConfiguration.     *)
(***************************************************************************)
\* A plain root that layout resizes, over unmarked elements of each tag.
ConfigurationPages ==
    {[els |-> <<El("div", Absent, FALSE, ""), El(a, Absent, FALSE, ""),
                El(d, Absent, FALSE, "")>>,
      inline |-> "", css |-> "static", debug |-> FALSE, resizable |-> {Root},
      leading |-> HalfLeading] : a, d \in {"div", "img", "x-card"}}

\* The overrides the page script passes: a tag gets the kind none, or a
\* kind that shows.
TableOverrides ==
    {[defaults |-> NoOptions, elements |-> [tag \in {t} |-> [skT |-> k]]] :
        t \in {"img", "x-card"}, k \in {"none", "rect"}}

InitConfiguration ==
    /\ doc \in ConfigurationPages
    /\ debug = doc.debug
    /\ configuration = Shipped
    /\ selector = Selector
    /\ NoContainer
    /\ NoOverlay
    /\ Untouched
    /\ size = [e \in Elements |-> [w |-> Width, h |-> LineHeight]]
    /\ hasParent = TRUE
    /\ dataSk = "true"
    /\ observedSk = dataSk
    /\ position = IF doc.inline # "" THEN doc.inline ELSE doc.css
    /\ opacity = [e \in Elements |-> doc.els[e + 1].opacity]
    /\ visibility = [e \in Elements |-> ""]
    /\ appended = {}
    /\ skeletonElements = NoEntries
    /\ leaked = {}
    /\ enabledObserver = [connected |-> TRUE, queued |-> FALSE]
    /\ removedObserver = [observed |-> {Root}, pending |-> TRUE]
    /\ wasDisabled = FALSE
    /\ stylePosition = IF position \in {"", "static"} THEN "relative" ELSE doc.inline
    /\ skeletonObserver = [observed |-> {Root}, pending |-> TRUE]

\* setSkeletonConfiguration(overrides), called by the page
SetConfiguration(overrides) ==
    /\ configuration' = setSkeletonConfiguration(configuration, overrides)
    /\ configuration' # configuration
    /\ UNCHANGED <<doc, debug, position, selector, mode, container, overlayVars,
                   size, hasParent, dataSk, observedSk, ctrlVars,
                   enabledObserver, removedObserver, wasDisabled>>

NextConfiguration ==
    \/ \E overrides \in TableOverrides : SetConfiguration(overrides)
    \/ \E e \in Elements, s \in Sizes : Resize(e, s)
    \/ DeliverResize

SpecConfiguration == InitConfiguration /\ [][NextConfiguration]_vars

(***************************************************************************)
(* The container variant of injectSkeleton: the decorations are children    *)
(* of one container appended to a target, and are placed either by CSS      *)
(* anchors or by offsets from the container.                                *)
(***************************************************************************)
\* What the container variant leaves alone: the controller of skeleton.ts.
skeletonVars ==
    <<dataSk, observedSk, stylePosition, visibility, appended, position,
      skeletonObserver, leaked, skeletonElements, enabledObserver,
      removedObserver, wasDisabled, selector>>

\* No controller of skeleton.ts is attached to the page.
NoSkeleton ==
    /\ dataSk = Absent
    /\ observedSk = Absent
    /\ position = ""
    /\ stylePosition = doc.inline
    /\ visibility = [e \in Elements |-> ""]
    /\ appended = {}
    /\ skeletonElements = NoEntries
    /\ leaked = {}
    /\ skeletonObserver = Disconnected
    /\ enabledObserver = [connected |-> FALSE, queued |-> FALSE]
    /\ removedObserver = Disconnected
    /\ wasDisabled = FALSE
    /\ selector = Selector

\* The configuration the container variant ships: the type option is sk,
\* the trim option skT.
ContainerShipped ==
    [defaults |->
        [skR |-> "m", skT |-> "trim", skO |-> "center", skSx |-> "1",
         skSy |-> "1", skTx |-> "0", skTy |-> "0"],
     elements |->
        [tag \in {"img", "picture", "video", "svg"} |-> [sk |-> "round"]]]

\* element.dataset as the container variant reads it: the element's type
\* marker is data-sk, its trim marker data-sk-t.
containerDataset(e) ==
    LET d == doc.els[e + 1]
        t == IF d.skT = Absent THEN NoOptions ELSE [sk |-> d.skT]
        other == [f \in DOMAIN d.data \ {"skTT"} |-> d.data[f]]
        trim == IF "skTT" \in DOMAIN d.data THEN [skT |-> d.data.skTT]
                ELSE NoOptions
    IN  Spread(Spread(t, other), trim)

implicitNone == {tag \in ConfiguredTags : Get(elements(tag), "sk") = "none"}

implicitType ==
    {tag \in ConfiguredTags : Get(elements(tag), "sk") \notin {Absent, "none"}}

\* element.matches(buildSelector(implicitNone, implicitType)): none of the
\* four exclusion rules applies. The rules look at every ancestor.
containerMatches(e, none, type) ==
    LET d(x) == doc.els[x + 1]
        marked(x) == d(x).skT # Absent
        above == {a \in Elements : IsDescendant(e, a)}
    IN  ~ \/ d(e).skT = "none"
          \/ ~marked(e) /\ \E a \in above : marked(a) /\ d(a).skT # "none"
          \/ ~marked(e) /\ \E a \in above : d(a).tag \in type /\ ~marked(a)
          \/ d(e).tag \in none /\ ~marked(e)

\* [...elements.filter(matches), ...elements.flatMap(querySelectorAll)], in
\* document order: the index of a candidate numbers its anchor.
containerCandidates ==
    LET found == {e \in Elements : containerMatches(e, implicitNone, implicitType)}
        before(e) == Cardinality({x \in found : x < e})
    IN  [i \in 1..Cardinality(found) |-> CHOOSE e \in found : before(e) = i - 1]

\* computeDecorations: undefined and [] are both the empty sequence.
computeDecorations(e, rect, options) ==
    LET sk == Get(options, "sk")
        m == MeasureText(rect)
        top == m.startTop - rect.y - (m.lineHeight - m.startHeight) \div 2
        left == m.startLeft - rect.x
        right == (rect.x + rect.w) - m.endRight
        lines == Round(m.endBottom - m.startTop, m.lineHeight)
        trim == IF Get(options, "skT") = "trim" THEN 1 ELSE 0
        first(line) == IF line = 0 THEN 1 ELSE 0
        final(line) == IF line = lines - 1 THEN 1 ELSE 0
    IN  IF rect.h = 0 \/ rect.w = 0 THEN <<>>
        ELSE IF sk = Absent /\ ~customElement(e) /\ ~probablyText(e) THEN <<>>
        ELSE IF \/ sk \notin {Absent, "text"}
                \/ sk = "text" /\ ~probablyText(e)
                \/ customElement(e)
        THEN <<[x |-> 0, y |-> 0, w |-> rect.w, h |-> rect.h]>>
        ELSE [i \in 1..lines |->
                [x |-> 1 + first(i - 1) * left,
                 y |-> top + (i - 1) * m.lineHeight,
                 w |-> rect.w - first(i - 1) * trim * left
                             - final(i - 1) * trim * right,
                 h |-> m.lineHeight]]

\* container.getBoundingClientRect()
containerRect == [x |-> 10, y |-> 20, w |-> Width, h |-> 0]

\* createDecoration placing every decoration by offsets.
createDecorationFloat(e, line, options, anchor, decorationRect, elementRect, contRect) ==
    LET sk == IF "sk" \in DOMAIN options THEN options.sk
              ELSE IF decorationRect.x > 0 THEN "text" ELSE "round"
        skSy == IF Get(options, "skSy") # "1" THEN Get(options, "skSy")
                ELSE IF sk = "text" THEN "0.5" ELSE "1"
    IN  [owner |-> e, line |-> line,
         positionAnchor |-> anchor, outline |-> "",
         borderRadius |-> radii[IF sk = "round" THEN options.skR ELSE sk],
         width |-> IF "skW" \in DOMAIN options THEN <<0, options.skW>>
                   ELSE <<decorationRect.w, "px">>,
         height |-> IF "skH" \in DOMAIN options THEN <<0, options.skH>>
                    ELSE <<decorationRect.h, "px">>,
         scale |-> <<Get(options, "skSx"), skSy>>,
         transformOrigin |-> Get(options, "skO"),
         left |-> <<decorationRect.x + (elementRect.x - contRect.x),
                    Get(options, "skTx")>>,
         top |-> <<decorationRect.y + (elementRect.y - contRect.y),
                   Get(options, "skTy")>>]

\* createDecoration of the container variant. owner and line stand for the
\* node's identity.
createDecoration(e, line, options, anchor, decorationRect, elementRect, contRect) ==
    LET sk == IF "sk" \in DOMAIN options THEN options.sk
              ELSE IF decorationRect.x > 0 THEN "text" ELSE "round"
        skSy == IF Get(options, "skSy") # "1" THEN Get(options, "skSy")
                ELSE IF sk = "text" THEN "0.5" ELSE "1"
        float == IF mode = "float" THEN 1 ELSE 0
    IN  [owner |-> e, line |-> line,
         positionAnchor |-> anchor, outline |-> "",
         borderRadius |-> radii[IF sk = "round" THEN options.skR ELSE sk],
         width |-> IF "skW" \in DOMAIN options THEN <<0, options.skW>>
                   ELSE <<decorationRect.w, "px">>,
         height |-> IF "skH" \in DOMAIN options THEN <<0, options.skH>>
                    ELSE <<decorationRect.h, "px">>,
         scale |-> <<Get(options, "skSx"), skSy>>,
         transformOrigin |-> Get(options, "skO"),
         left |-> <<decorationRect.x + float * (elementRect.x - contRect.x),
                    Get(options, "skTx")>>,
         top |-> <<decorationRect.y + float * (elementRect.y - contRect.y),
                   Get(options, "skTy")>>]

\* The options the container variant resolves for an element.
containerOptions(e) ==
    Spread(Spread(defaults, elements(localName(e))), containerDataset(e))

\* const decorationData of the observer's callback: for the i-th candidate
\* its anchor, options, rect and decorations.
decorationData ==
    [i \in DOMAIN containerCandidates |->
        LET e == containerCandidates[i]
            options == containerOptions(e)
            elementRect == getBoundingClientRect(e)
            rects == computeDecorations(e, elementRect, options)
        IN  [element |-> e, anchor |-> <<"--skeleton-decoration", i - 1>>,
             options |-> options,
             elementRect |-> elementRect,
             decorations |->
                {createDecoration(e, k, options, <<"--skeleton-decoration", i - 1>>,
                                  rects[k], elementRect,
                                  containerRect) : k \in DOMAIN rects}]]

\* The candidates that got decorations, and those of them that show some.
containerCovered == {i \in DOMAIN decorationData : decorationData[i].decorations # {}}

containerShown ==
    {i \in containerCovered : Get(decorationData[i].options, "sk") # "hide"}

\* The state after injectSkeleton([root], target, debug)() of the container
\* variant returned, on the pages of OptionPages.
InitPlacement ==
    /\ doc \in OptionPages
    /\ debug = doc.debug
    /\ configuration = ContainerShipped
    /\ mode \in {"anchor", "float"}
    /\ size = [e \in Elements |-> [w |-> Width, h |-> LineHeight]]
    /\ hasParent = TRUE
    /\ opacity = [e \in Elements |-> doc.els[e + 1].opacity]
    /\ NoSkeleton
    /\ NoOverlay
    /\ inert = [e \in Elements |-> e = Root /\ ~debug]
    /\ anchorName = [e \in Elements |-> <<>>]
    /\ inlinePosition = [e \in Elements |-> ""]
    /\ container = [children |-> {}, observed |-> {Root}, pending |-> TRUE]

\* Layout gives an element another size; the container's observer is told.
Reflow(e, s) ==
    /\ e \in doc.resizable
    /\ s # size[e]
    /\ size' = [size EXCEPT ![e] = s]
    /\ container' =
           [container EXCEPT
               !.pending = @ \/ e \in container.observed]
    /\ UNCHANGED <<doc, debug, configuration, hasParent, opacity, mode,
                   skeletonVars, overlayVars>>

\* new ResizeObserver(() => { ... }) of the container variant.
ContainerCallback ==
    /\ container.pending
    /\ opacity' =
           [e \in Elements |->
               IF ~debug /\ \E i \in containerCovered : decorationData[i].element = e
               THEN "0" ELSE opacity[e]]
    /\ anchorName' =
           [e \in Elements |->
               IF mode = "anchor" /\ \E i \in containerShown : decorationData[i].element = e
               THEN decorationData[CHOOSE i \in containerShown :
                                       decorationData[i].element = e].anchor
               ELSE anchorName[e]]
    /\ container' =
           LET shown == {decorationData[i].element : i \in containerShown}
               outlined(i) ==
                   IF ~debug THEN decorationData[i].decorations
                   ELSE {[d EXCEPT !.outline =
                             IF Get(decorationData[i].options, "sk") = "text"
                             THEN "1px dashed red" ELSE "1px solid red"] :
                           d \in decorationData[i].decorations}
           IN  [children |-> UNION {outlined(i) : i \in containerShown},
                observed |-> container.observed \cup shown,
                pending |-> \E e \in shown \ container.observed : HasBox(e)]
    /\ UNCHANGED <<doc, debug, configuration, size, hasParent, mode, skeletonVars,
                   variant, ov, inert, hasBox, records, decorations, overlays,
                   created, resizeObserver, mutationObserver, inlinePosition,
                   component>>

\* The function the container variant returned: observer.disconnect()
ContainerCleanup ==
    /\ container.observed # {}
    /\ container' = [container EXCEPT !.observed = {}, !.pending = FALSE]
    /\ UNCHANGED <<doc, debug, configuration, size, hasParent, opacity, mode,
                   skeletonVars, overlayVars>>

NextPlacement ==
    \/ \E e \in Elements, s \in TextSizes : Reflow(e, s)
    \/ ContainerCallback
    \/ ContainerCleanup

SpecPlacement == InitPlacement /\ [][NextPlacement]_vars

(***************************************************************************)
(* injectOverlay, in its three variants: overlay.ts keeps the decorations   *)
(* in one container and watches data-ov and inert in the subtrees of its    *)
(* roots; skeleton.ts appends each decoration to its element and watches    *)
(* data-ov in the root's subtree; part_003 watches one element and keeps    *)
(* the decoration in element._overlay.                                      *)
(***************************************************************************)
OverlayVariants == {"overlay.ts", "skeleton.ts", "part_003"}

\* The elements whose attributes and boxes the page changes: the one
\* element part_003 is attached to, the root and its child otherwise.
Targets == IF variant = "part_003" THEN {Root} ELSE {Root, 1}

\* The element layout takes the box of, and the element whose inert
\* attribute the page writes.
Removable == IF variant = "part_003" THEN Root ELSE 1

\* The element counts as enabled for the controller.
Overlaid(e) ==
    IF variant = "overlay.ts" THEN ov[e] = "true" /\ inert[e] ELSE ov[e] = "true"

\* The state the callbacks of injectOverlay work on, as one record o.
Ov ==
    [decorations |-> decorations, overlays |-> overlays, created |-> created,
     resizeObserver |-> resizeObserver, anchorName |-> anchorName,
     inlinePosition |-> inlinePosition]

InstallOv(o) ==
    /\ decorations' = o.decorations
    /\ overlays' = o.overlays
    /\ created' = o.created
    /\ resizeObserver' = o.resizeObserver
    /\ anchorName' = o.anchorName
    /\ inlinePosition' = o.inlinePosition

\* resizeObserver.observe(e): an element observed for the first time is
\* reported when it has a box.
overlayObserve(observer, e) ==
    [observed |-> observer.observed \cup {e},
     pending |-> observer.pending
                    \cup IF e \notin observer.observed /\ hasBox[e] THEN {e} ELSE {}]

\* An unobserve that leaves the element observed.
overlayUnobserveNothing(observer, e) == observer

\* resizeObserver.unobserve(e)
overlayUnobserve(observer, e) ==
    [observed |-> observer.observed \ {e}, pending |-> observer.pending \ {e}]

\* decoration.remove() of the node n
removed(nodes, n) == [i \in DOMAIN nodes \ {n} |-> nodes[i]]

\* The overlay nodes after the fade-out of n finished, were the callback to
\* remove the decoration its element has at that moment.
fadedCurrent(nodes, n) == removed(nodes, decorations[nodes[n].owner])

\* The overlay nodes after the fade-out animation of n finished: the
\* callback removes the decoration it holds.
faded(nodes, n) == removed(nodes, n)

\* inject: a decoration is created, attached, recorded for the element and
\* fades in; the element is positioned and observed. No code waits for the
\* fade-in, so a decoration is shown from its creation until its fade-out
\* starts. anchor is the anchor name overlay.ts ties the two with, <<>> in
\* the other variants.
overlayInject(o, e, anchor) ==
    LET n == o.created + 1
    IN  [o EXCEPT
            !.created = n,
            !.overlays =
                @ @@ (n :> [owner |-> e, phase |-> "shown", fade |-> TRUE,
                            positionAnchor |-> anchor]),
            !.decorations[e] = n,
            !.resizeObserver = overlayObserve(@, e),
            !.anchorName[e] = IF variant = "overlay.ts" THEN anchor ELSE @,
            !.inlinePosition[e] = IF variant = "overlay.ts" THEN @ ELSE "relative"]

\* The teardown that leaves the decoration recorded for its element.
overlayEjectTracked(o, e, animate) ==
    LET n == o.decorations[e]
    IN  [o EXCEPT
            !.resizeObserver = overlayUnobserve(@, e),
            !.overlays =
                [i \in DOMAIN @ |->
                    IF i = n THEN [@[i] EXCEPT !.phase = "out", !.fade = animate]
                    ELSE @[i]]]

\* The teardown of eject and of overlay.ts's mutation callback, past its
\* guard: the element is unobserved and forgotten, its decoration fades out
\* (in no time when animate is false) and is removed when that finished.
overlayEject(o, e, animate) ==
    LET n == o.decorations[e]
    IN  [o EXCEPT
            !.decorations[e] = 0,
            !.resizeObserver = overlayUnobserve(@, e),
            !.overlays =
                [i \in DOMAIN @ |->
                    IF i = n THEN [@[i] EXCEPT !.phase = "out", !.fade = animate]
                    ELSE @[i]]]

\* eject(element, animate): skeleton.ts and overlay.ts return when the
\* element has no decoration or still counts as enabled.
guardedEject(o, e, animate) ==
    IF o.decorations[e] = 0 \/ Overlaid(e) THEN o ELSE overlayEject(o, e, animate)

RECURSIVE ejectEach(_, _)
\* records.forEach(({ target }) => eject(target, true))
ejectEach(o, targets) ==
    IF targets = <<>> THEN o
    ELSE ejectEach(guardedEject(o, Head(targets), TRUE), Tail(targets))

RECURSIVE injectEach(_, _, _)
\* The second pass over the records: a decoration for every record whose
\* target counts as enabled. i is the index of the record.
injectEach(o, targets, i) ==
    IF targets = <<>> THEN o
    ELSE injectEach(IF Overlaid(Head(targets))
                    THEN overlayInject(o, Head(targets),
                                       IF variant = "overlay.ts"
                                       THEN <<"--load-overlay", i>> ELSE <<>>)
                    ELSE o,
                    Tail(targets), i + 1)

\* The MutationObserver callback for the records in targets.
mutationCallback(o, targets) ==
    IF variant = "part_003"
    THEN IF ov[Root] = "true" THEN overlayInject(o, Root, <<>>)
         ELSE overlayEject(o, Root, TRUE)
    ELSE injectEach(ejectEach(o, targets), targets, 0)

\* The ResizeObserver callback for the entry of e.
resizeCallback(o, e) ==
    IF hasBox[e] THEN o
    ELSE IF variant = "skeleton.ts" THEN guardedEject(o, e, FALSE)
    ELSE IF variant = "part_003" THEN overlayEject(o, e, FALSE)
    ELSE [overlayEject(o, e, FALSE) EXCEPT
             !.overlays = removed(@, o.decorations[e])]

RECURSIVE resizeEach(_, _)
\* entries.forEach(...)
resizeEach(o, entries) ==
    IF entries = {} THEN o
    ELSE LET e == CHOOSE x \in entries : \A y \in entries : x <= y
         IN  resizeEach(resizeCallback(o, e), entries \ {e})

\* The page the overlay is exercised on.
OverlayPage ==
    [els |-> <<El("div", Absent, FALSE, ""), El("div", Absent, FALSE, ""),
               El("div", Absent, FALSE, "")>>,
     inline |-> "", css |-> "static", debug |-> FALSE, resizable |-> {},
     leading |-> HalfLeading]

\* The state after injectOverlay returned: part_003 injects at once when
\* its element is enabled, the other variants wait for a mutation. The
\* page has made the root inert.
InitOverlay ==
    /\ doc = OverlayPage
    /\ debug = doc.debug
    /\ configuration = Shipped
    /\ size = [e \in Elements |-> [w |-> Width, h |-> LineHeight]]
    /\ hasParent = TRUE
    /\ opacity = [e \in Elements |-> doc.els[e + 1].opacity]
    /\ NoSkeleton
    /\ NoContainer
    /\ variant \in OverlayVariants
    /\ ov \in {[e \in Elements |-> IF e = Root THEN v ELSE Absent] : v \in {Absent, "true"}}
    /\ inert = [e \in Elements |-> e = Root]
    /\ hasBox = [e \in Elements |-> TRUE]
    /\ records = <<>>
    /\ mutationObserver = TRUE
    /\ component = [parent |-> FALSE, cleanup |-> FALSE, disposed |-> FALSE]
    /\ LET idle == [decorations |-> [e \in Elements |-> 0], overlays |-> <<>>,
                    created |-> 0,
                    resizeObserver |-> [observed |-> {}, pending |-> {}],
                    anchorName |-> [e \in Elements |-> <<>>],
                    inlinePosition |-> [e \in Elements |-> ""]]
           o == IF variant = "part_003" /\ ov[Root] = "true"
                THEN overlayInject(idle, Root, <<>>) ELSE idle
       IN  /\ decorations = o.decorations
           /\ overlays = o.overlays
           /\ created = o.created
           /\ resizeObserver = o.resizeObserver
           /\ anchorName = o.anchorName
           /\ inlinePosition = o.inlinePosition

\* What injectOverlay leaves alone. The page is followed while the
\* observers are connected: no write reaches the controller afterwards.
overlayPage ==
    <<doc, debug, configuration, size, hasParent, opacity, mode, container,
      skeletonVars, variant, component>>

\* element.dataset.ov = value: the write is recorded also when the value
\* stays the same.
SetOv(e, value) ==
    /\ e \in Targets
    /\ mutationObserver
    /\ Len(records) < MaxRecords
    /\ ov' = [ov EXCEPT ![e] = value]
    /\ records' = Append(records, e)
    /\ UNCHANGED <<overlayPage, inert, hasBox, decorations, overlays, created,
                   resizeObserver, mutationObserver, anchorName, inlinePosition>>

\* element.inert = value: overlay.ts watches the attribute. Removing an
\* attribute that is absent records nothing.
SetInert(e, value) ==
    /\ variant = "overlay.ts"
    /\ e = Removable
    /\ mutationObserver
    /\ Len(records) < MaxRecords
    /\ inert' = [inert EXCEPT ![e] = value]
    /\ records' = IF value \/ inert[e] THEN Append(records, e) ELSE records
    /\ UNCHANGED <<overlayPage, ov, hasBox, decorations, overlays, created,
                   resizeObserver, mutationObserver, anchorName, inlinePosition>>

\* Layout takes the element's box away (it left the document) or gives it
\* back; the ResizeObserver has an entry for an element it observes.
SetBox(e, present) ==
    /\ e = Removable
    /\ mutationObserver
    /\ present # hasBox[e]
    /\ hasBox' = [hasBox EXCEPT ![e] = present]
    /\ resizeObserver' =
           [resizeObserver EXCEPT
               !.pending = IF e \in resizeObserver.observed THEN @ \cup {e} ELSE @]
    /\ UNCHANGED <<overlayPage, ov, inert, records, decorations, overlays,
                   created, mutationObserver, anchorName, inlinePosition>>

\* new MutationObserver(records => ...): one callback for all queued records
MutationCallback ==
    /\ records # <<>>
    /\ mutationCallback(Ov, records).created <= MaxDecorations
    /\ records' = <<>>
    /\ InstallOv(mutationCallback(Ov, records))
    /\ UNCHANGED <<overlayPage, ov, inert, hasBox, mutationObserver>>

\* new ResizeObserver(entries => ...), delivered after the mutation records
ResizeCallback ==
    /\ records = <<>>
    /\ resizeObserver.pending # {}
    /\ InstallOv(resizeEach([Ov EXCEPT !.resizeObserver.pending = {}],
                            resizeObserver.pending))
    /\ UNCHANGED <<overlayPage, ov, inert, hasBox, records, mutationObserver>>

\* The fade-out animation of a decoration finished: decoration.remove()
FadeOutFinished(n) ==
    /\ n \in DOMAIN overlays
    /\ overlays[n].phase = "out"
    /\ overlays' = faded(overlays, n)
    /\ UNCHANGED <<overlayPage, ov, inert, hasBox, records, decorations, created,
                   resizeObserver, mutationObserver, anchorName, inlinePosition>>

\* The function injectOverlay returned: both observers are disconnected;
\* overlay.ts removes the container with every decoration in it, part_003
\* the decoration of element._overlay, skeleton.ts nothing.
OverlayCleanup ==
    /\ mutationObserver
    /\ mutationObserver' = FALSE
    /\ records' = <<>>
    /\ resizeObserver' = [observed |-> {}, pending |-> {}]
    /\ overlays' =
           IF variant = "overlay.ts" THEN <<>>
           ELSE IF variant = "part_003" THEN removed(overlays, decorations[Root])
           ELSE overlays
    /\ UNCHANGED <<overlayPage, ov, inert, hasBox, decorations, created,
                   anchorName, inlinePosition>>

NextOverlay ==
    \/ \E e \in Elements, value \in {"true", "false"} : SetOv(e, value)
    \/ \E e \in Elements, value \in BOOLEAN : SetInert(e, value)
    \/ \E e \in Elements, present \in BOOLEAN : SetBox(e, present)
    \/ MutationCallback
    \/ ResizeCallback
    \/ \E n \in 1..MaxDecorations : FadeOutFinished(n)
    \/ OverlayCleanup

SpecOverlay == InitOverlay /\ [][NextOverlay]_vars

(***************************************************************************)
(* The Overlay component of solid.tsx: it renders a stub element, attaches  *)
(* injectOverlay to the stub's parent, writes its props to the parent's     *)
(* data attributes and registers a handler for its disposal.  The call      *)
(* injectOverlay(parent()) fits the variants that take one element.         *)
(***************************************************************************)
\* The state after the component function returned.  parent() is the
\* stub's parentElement as it was when the ref ran: an element when the stub
\* was adopted from the document (hydration), nothing when it was created
\* detached.  With a parent, the first computation has called injectOverlay
\* and stored what it returned in the signal cleanup, and the second has
\* written ov and inert: one record of data-ov is queued.
InitSolid ==
    /\ doc = OverlayPage
    /\ debug = doc.debug
    /\ configuration = Shipped
    /\ size = [e \in Elements |-> [w |-> Width, h |-> LineHeight]]
    /\ hasParent = TRUE
    /\ opacity = [e \in Elements |-> doc.els[e + 1].opacity]
    /\ NoSkeleton
    /\ NoContainer
    /\ variant \in {"skeleton.ts", "part_003"}
    /\ hasBox = [e \in Elements |-> TRUE]
    /\ decorations = [e \in Elements |-> 0]
    /\ overlays = <<>>
    /\ created = 0
    /\ resizeObserver = [observed |-> {}, pending |-> {}]
    /\ anchorName = [e \in Elements |-> <<>>]
    /\ inlinePosition = [e \in Elements |-> ""]
    /\ \E found \in BOOLEAN, when \in {"true", "false"} :
          /\ component = [parent |-> found, cleanup |-> found, disposed |-> FALSE]
          /\ mutationObserver = found
          /\ ov = [e \in Elements |-> IF found /\ e = Root THEN when ELSE Absent]
          /\ inert = [e \in Elements |-> found /\ e = Root /\ when = "true"]
          /\ records = IF found THEN <<Root>> ELSE <<>>

\* A prop of the component changed: the second computation runs again.
\* Object.assign(parent().dataset, options); parent().inert = ...
SetWhen(when) ==
    /\ component.parent
    /\ ~component.disposed
    /\ Len(records) < MaxRecords
    /\ ov' = [ov EXCEPT ![Root] = when]
    /\ inert' = [inert EXCEPT ![Root] = (when = "true")]
    /\ records' = Append(records, Root)
    /\ UNCHANGED <<overlayPage, hasBox, decorations, overlays, created,
                   resizeObserver, mutationObserver, anchorName, inlinePosition>>

\* onCleanup(() => cleanup?.()): cleanup is the accessor of the signal. The
\* handler calls the accessor, which returns the function injectOverlay
\* returned, and calls nothing else.
Dispose ==
    /\ ~component.disposed
    /\ component' = [component EXCEPT !.disposed = TRUE]
    /\ UNCHANGED <<doc, debug, configuration, size, hasParent, opacity, mode,
                   container, skeletonVars, variant, ov, inert, hasBox, records,
                   decorations, overlays, created, resizeObserver,
                   mutationObserver, anchorName, inlinePosition>>

NextSolid ==
    \/ \E when \in {"true", "false"} : SetWhen(when)
    \/ \E e \in Elements, value \in {"true", "false"} : SetOv(e, value)
    \/ \E e \in Elements, present \in BOOLEAN : SetBox(e, present)
    \/ MutationCallback
    \/ ResizeCallback
    \/ \E n \in 1..MaxDecorations : FadeOutFinished(n)
    \/ Dispose

SpecSolid == InitSolid /\ [][NextSolid]_vars

(***************************************************************************)
(* The lifecycle states of the controller, read off the observers.          *)
(***************************************************************************)
\* The observer of the running session is connected.
Enabled == Connected(skeletonObserver)

\* The cleanup function has been called.
Disposed == ~enabledObserver.connected

Disabled == ~Disposed /\ ~Enabled

\* The inline styles the page author wrote.
AuthoredOpacity == [e \in Elements |-> doc.els[e + 1].opacity]

AuthoredVisibility == [e \in Elements |-> ""]

\* The decoration nodes a recomputation creates for the page as it is.
ExpectedNodes ==
    LET entries == measuredEntries(AuthoredOpacity, AuthoredVisibility)
    IN  UNION {skeletonsOf(e, entries[e]) : e \in DOMAIN entries}

\* A delivery that ran the callback of a ResizeObserver of inject().
Recomputed == DeliverResize /\ Due(Ctrl) # {}

(***************************************************************************)
(* Disposal.                                                                *)
(***************************************************************************)
\* C1: once the cleanup function has been called, calling it again changes
\* nothing, no decoration node is attached under the root and no watcher
\* (enablement, removal or session size watcher) is connected.
C1_CleanupTwiceLeavesNothing ==
    Disposed =>
        /\ eject(Ctrl) = Ctrl
        /\ appended = {}
        /\ ~Connected(removedObserver)
        /\ ~Connected(skeletonObserver)
        /\ leaked = {}

\* C2: after cleanup the root's inline position and every element's inline
\* opacity and visibility are what they were before attach, and no
\* decoration node is left.
C2_CleanupRestoresAttach ==
    Disposed =>
        /\ stylePosition = doc.inline
        /\ opacity = AuthoredOpacity
        /\ visibility = AuthoredVisibility
        /\ appended = {}

\* C3: after cleanup no step attaches a decoration node or changes an
\* element's style.
C3_DisposedIsInert ==
    [][Disposed => UNCHANGED <<stylePosition, opacity, visibility, appended>>]_vars

\* C4: while the controller is Disabled no decoration node is attached, the
\* decorated elements have their opacity and visibility back, no session
\* size watcher is connected and the enablement watcher is.
C4_DisabledIsClean ==
    Disabled =>
        /\ appended = {}
        /\ opacity = AuthoredOpacity
        /\ visibility = AuthoredVisibility
        /\ leaked = {}
        /\ enabledObserver.connected

(***************************************************************************)
(* Enablement.                                                              *)
(***************************************************************************)
\* C5 as claimed: until disposal the controller is Enabled exactly when the
\* value it last read from data-sk is 'true'.
C5_EnabledIffObservedTrue ==
    ~Disposed => (Enabled <=> observedSk = "true")

\* C5 as amended: at attach and after every callback of the enablement
\* watcher the controller is Enabled exactly when the value read is 'true';
\* it is Enabled only while the value last read is 'true', and between two
\* reads it can only leave Enabled (root removal, disposal).
C5_EnabledFollowsObservedTrue ==
    /\ Enabled <=> observedSk = "true"
    /\ [][/\ EnabledCallback => (Enabled' <=> observedSk' = "true")
          /\ Enabled' => observedSk' = "true"
          /\ ~EnabledCallback /\ Enabled' => Enabled]_vars

\* The root was removed while data-sk read 'true': Disabled, not disposed.
C5_Witness ==
    /\ ~Disposed
    /\ ~hasParent
    /\ observedSk = "true"
    /\ ~Enabled
    /\ ~removedObserver.pending

(***************************************************************************)
(* Recomputation.                                                           *)
(***************************************************************************)
\* C6: while Enabled, after a size-watcher callback the decoration nodes
\* under the root are exactly the nodes the Map records, every one of them
\* was created by that callback, and they and the Map's entries belong to
\* current candidates.
C6_AttachedIsTrackedAndFresh ==
    [][Recomputed /\ Enabled' =>
          /\ appended' = TrackedSkeletons(Ctrl)'
          /\ \A n \in appended' : n.fresh /\ n.owner \in candidates
          /\ DOMAIN skeletonElements' \subseteq candidates]_vars

\* Decorations recomputed after the decorated element changed its size.
C6_Witness ==
    /\ Enabled
    /\ ~skeletonObserver.pending
    /\ \E n \in appended :
           /\ n.owner \in skeletonObserver.observed
           /\ size[n.owner].h = 2 * LineHeight
           /\ n.fresh

\* C7: a size-watcher callback that finds the root without a parent while
\* the controller is Enabled leaves it Disabled: no decoration node, the
\* styles restored, the session's observer disconnected, whatever data-sk
\* reads.
C7_RemovalForcesDisabled ==
    [][DeliverResize /\ removedObserver.pending /\ ~hasParent /\ Enabled =>
          /\ ~Enabled'
          /\ appended' = {}
          /\ skeletonElements' = NoEntries
          /\ opacity' = AuthoredOpacity
          /\ visibility' = AuthoredVisibility]_vars

\* The root was removed while Enabled; the size watcher's callback ran and
\* ended the session although data-sk still reads 'true'.
C7_Witness ==
    /\ ~Disposed
    /\ ~hasParent
    /\ dataSk = "true"
    /\ observedSk = "true"
    /\ ~enabledObserver.queued
    /\ ~removedObserver.pending
    /\ ~Enabled
    /\ stylePosition = position
    /\ appended = {}

\* C8: the decorations a recomputation leaves are a function of the content
\* alone (subtree, markers, sizes): after data-sk went true, false and true
\* again the size watcher materializes the same nodes, with the same
\* rectangles, as after the first enable. (A delivery changes neither the
\* page nor the sizes, so ExpectedNodes is what the callback measured.)
C8_RoundTripSameDecorations ==
    [][Recomputed /\ Enabled' => appended' = ExpectedNodes]_vars

\* Enabled again, and recomputed, after a disable removed decorations.
C8_Witness ==
    /\ wasDisabled
    /\ Enabled
    /\ hasParent
    /\ ~skeletonObserver.pending
    /\ ~enabledObserver.queued
    /\ appended # {}
    /\ appended = ExpectedNodes

\* C9: after a recomputation a candidate measured with width 0 or height 0
\* has no rectangles, no entry in the Map, no decoration node and its
\* authored opacity and visibility, whatever its resolved kind.
C9_ZeroSizeGuard ==
    [][Recomputed =>
          \A e \in candidates :
              LET rect == getBoundingClientRect(e)
              IN  rect.w = 0 \/ rect.h = 0 =>
                      /\ computePositions(e, resolveOptions(e), rect) = <<>>
                      /\ e \notin DOMAIN skeletonElements'
                      /\ \A n \in appended' : n.owner # e
                      /\ opacity'[e] = AuthoredOpacity[e]
                      /\ visibility'[e] = AuthoredVisibility[e]]_vars

\* A candidate that was decorated lost its width and was recomputed.
C9_Witness ==
    /\ Enabled
    /\ hasParent
    /\ ~skeletonObserver.pending
    /\ appended # {}
    /\ \E e \in candidates \cap skeletonObserver.observed :
           /\ size[e].w = 0
           /\ Get(resolveOptions(e), "skT") # Absent
           /\ e \notin DOMAIN skeletonElements

(***************************************************************************)
(* Participation: the marker "none".                                        *)
(***************************************************************************)
Marker(e) == doc.els[e + 1].skT

\* e has an entry in the Map or a decoration node under the root.
Decorated(e) ==
    \/ e \in DOMAIN skeletonElements
    \/ \E n \in appended : n.owner = e

\* No other rule of the selector excludes the unmarked element e: it is an
\* implicit-include tag of this skeleton subtree and no element between the
\* root and e is typed, an unmarked implicit-include tag, or of another
\* subtree.
IncludedByTag(e) ==
    LET d(x) == doc.els[x + 1]
        own(x) == d(x).skId \in {Absent, id}
    IN  /\ Marker(e) = Absent
        /\ own(e)
        /\ d(e).tag \in implicitShow
        /\ \A x \in Elements :
               IsDescendant(x, Root) /\ IsDescendant(e, x) =>
                   /\ own(x)
                   /\ \/ Marker(x) = "none"
                      \/ Marker(x) = Absent /\ d(x).tag \notin implicitShow

\* C10 as claimed: an element without a marker below an element marked
\* 'none' gets no rectangle and no decoration node, also when its tag is an
\* implicit-include tag.
C10_NoneCascades ==
    \A a \in Elements, e \in Elements :
        Marker(a) = "none" /\ IsDescendant(e, a) /\ Marker(e) = Absent =>
            ~Decorated(e)

\* C10 as amended: a descendant of the root marked 'none' is no candidate
\* and gets no rectangle and no decoration node itself; the marker does not
\* cascade: an unmarked element below it that no other rule excludes is a
\* candidate and a recomputation that measures it with a width and a height
\* decorates it.
C10_NoneExcludesItself ==
    /\ [](\A a \in Elements \ {Root} :
              Marker(a) = "none" => a \notin candidates /\ ~Decorated(a))
    /\ [](\A a \in Elements, e \in Elements :
              Marker(a) = "none" /\ IsDescendant(e, a) /\ IncludedByTag(e) =>
                  e \in candidates)
    /\ [][Recomputed /\ hasParent =>
             \A a \in Elements, e \in Elements :
                 /\ Marker(a) = "none" /\ IsDescendant(e, a) /\ IncludedByTag(e)
                 /\ size[e].w # 0 /\ size[e].h # 0
                 => Decorated(e)']_vars

\* An img without marker is decorated below a div marked 'none' that is not.
C10_Witness ==
    /\ Enabled
    /\ ~skeletonObserver.pending
    /\ \E a \in Elements \ {Root}, e \in Elements :
           /\ Marker(a) = "none"
           /\ IsDescendant(e, a)
           /\ Marker(e) = Absent
           /\ doc.els[e + 1].tag = "img"
           /\ \E n \in appended : n.owner = e /\ n.fresh
           /\ ~Decorated(a)

\* C11: no element of the scanned set (the root and its descendants) that
\* carries the marker 'none' is a candidate, gets a decoration node or has
\* its opacity or visibility changed.
C11_NoneNeverParticipates ==
    \A e \in Elements :
        Marker(e) = "none" =>
            /\ e \notin candidates
            /\ ~Decorated(e)
            /\ opacity[e] = AuthoredOpacity[e]
            /\ visibility[e] = AuthoredVisibility[e]

(***************************************************************************)
(* Participation: own markers, ancestors, tag defaults, subtrees.           *)
(***************************************************************************)
Tag(e) == doc.els[e + 1].tag

\* The element carries its own marker other than 'none'.
Typed(e) == Marker(e) \notin {Absent, "none"}

\* The proper ancestors of e, the root included.
Ancestors(e) == {x \in Elements : IsDescendant(e, x)}

\* The ancestors of e that the selector's rules can name: those below the
\* root.
InnerAncestors(e) == {x \in Ancestors(e) : IsDescendant(x, Root)}

\* x carries a data-sk-id other than the root's.
Foreign(x) ==
    /\ doc.els[x + 1].skId # Absent
    /\ doc.els[x + 1].skId # id

\* e is in the root's own skeleton subtree.
OwnSubtree(e) == \A x \in {e} \cup Ancestors(e) : ~Foreign(x)

\* The nearest ancestors of e that carry a marker (none or one).
NearestMarked(e) ==
    {n \in Ancestors(e) :
        /\ Marker(n) # Absent
        /\ \A m \in Ancestors(e) : Marker(m) # Absent => ~IsDescendant(m, n)}

C13_ImplicitNoneTags ==
    \A e \in Elements :
        /\ Marker(e) = Absent /\ Tag(e) \in implicitHide
               => e \notin candidates /\ ~Decorated(e)
        /\ /\ Typed(e)
           /\ OwnSubtree(e)
           /\ \E x \in {e} \cup Ancestors(e) : Tag(x) \in implicitHide
           => e \in candidates

\* C14: an element that carries a data-sk-id other than the root's id, and
\* every descendant of such an element, is no candidate of the root's
\* controller and is not decorated, whatever markers they carry.
C14_SubtreeIsolation ==
    \A e \in Elements :
        (\E x \in {e} \cup Ancestors(e) : Foreign(x)) =>
            e \notin candidates /\ ~Decorated(e)

\* A typed element below an element of another subtree stays undecorated
\* while the controller has decorated the root.
C14_Witness ==
    /\ Enabled
    /\ ~skeletonObserver.pending
    /\ Decorated(Root)
    /\ doc.els[Root + 1].skId = "other"
    /\ \E e \in Elements :
           /\ Typed(e)
           /\ ~Foreign(e)
           /\ \E x \in Ancestors(e) : doc.els[x + 1].skId = "default"
           /\ ~Decorated(e)

(***************************************************************************)
(* Option resolution.                                                       *)
(***************************************************************************)
\* The value of field f in the highest layer that has it.
Precedence(e, f) ==
    IF f \in DOMAIN dataset(e) THEN dataset(e)[f]
    ELSE IF f \in DOMAIN elements(localName(e)) THEN elements(localName(e))[f]
    ELSE defaults[f]

\* C15: the resolved options hold exactly the fields of the three layers,
\* each with the value of the highest layer that has it (element data
\* attributes over per-tag defaults over global defaults), and these are the
\* options the recomputation records for a decorated element; an img with
\* data-sk-r 'xl' resolves to kind 'round', skR 'xl'.
C15_OptionPrecedence ==
    \A e \in Elements :
        LET options == resolveOptions(e)
        IN  /\ DOMAIN options =
                   DOMAIN defaults \cup DOMAIN elements(localName(e))
                       \cup DOMAIN dataset(e)
            /\ \A f \in DOMAIN options : options[f] = Precedence(e, f)
            /\ e \in DOMAIN skeletonElements =>
                   skeletonElements[e].options = options
            /\ /\ Tag(e) = "img"
               /\ Marker(e) = Absent
               /\ doc.els[e + 1].data = [skR |-> "xl"]
               => options.skT = "round" /\ options.skR = "xl"

\* An img with its own data-sk-r, under a configuration whose global and
\* per-tag defaults both set skR, is decorated with the element's value.
C15_Witness ==
    /\ Enabled
    /\ ~skeletonObserver.pending
    /\ \E e \in DOMAIN skeletonElements :
           /\ Tag(e) = "img"
           /\ "skR" \in DOMAIN doc.els[e + 1].data
           /\ "skR" \in DOMAIN elements("img")
           /\ defaults.skR = "l"
           /\ skeletonElements[e].options.skR = "xl"
           /\ \E n \in appended : n.owner = e /\ n.borderRadius = "16px"

(***************************************************************************)
(* Geometry.                                                                *)
(***************************************************************************)
\* The element is measured with a width and a height.
Measured(e) ==
    LET rect == getBoundingClientRect(e) IN rect.w # 0 /\ rect.h # 0

\* The resolved kind of e.
Kind(e) == Get(resolveOptions(e), "skT")

\* The classification of computePositions: one box for the whole element,
\* or one rectangle per line of text.
Generic(e) ==
    \/ customElement(e)
    \/ Kind(e) \notin {Absent, "text"}
    \/ Kind(e) = "text" /\ ~probablyText(e)

TextLike(e) ==
    /\ ~customElement(e)
    /\ probablyText(e)
    /\ Kind(e) \in {Absent, "text"}

\* What computePositions returns for e as the page is laid out.
Positions(e) == computePositions(e, resolveOptions(e), getBoundingClientRect(e))

\* Last character bottom minus first character top of e's text node.
Extent(e) ==
    LET m == MeasureText(getBoundingClientRect(e)) IN m.endBottom - m.startTop

\* The vertical offset of the first line: first character top, less half of
\* what the line box is higher than the glyph box.
FirstTop(e) ==
    LET rect == getBoundingClientRect(e)
        m == MeasureText(rect)
    IN  m.startTop - rect.y - (m.lineHeight - m.startHeight) \div 2

\* C16: for a text node whose extent is n line heights the geometry function
\* returns n rectangles; in general their number is the extent over the
\* line height, rounded; rectangle i has the vertical offset
\* top + i * lineHeight and the height lineHeight, and the recomputation
\* attaches one decoration node per rectangle.
C16_LinesOfText ==
    \A e \in Elements :
        TextLike(e) /\ Measured(e) =>
            LET lines == Len(Positions(e))
            IN  /\ Extent(e) % LineHeight = 0 => lines * LineHeight = Extent(e)
                /\ 2 * lines * LineHeight <= 2 * Extent(e) + LineHeight
                /\ 2 * lines * LineHeight > 2 * Extent(e) - LineHeight
                /\ \A i \in 1..lines :
                       /\ Positions(e)[i].y = FirstTop(e) + (i - 1) * LineHeight
                       /\ Positions(e)[i].h = LineHeight
                /\ e \in DOMAIN skeletonElements /\ Due(Ctrl) = {} =>
                       /\ skeletonElements[e].positions = Positions(e)
                       /\ Cardinality(skeletonElements[e].skeletons) = lines

\* A text of exactly three line heights is decorated with three nodes.
C16_Witness ==
    /\ Enabled
    /\ Due(Ctrl) = {}
    /\ \E e \in DOMAIN skeletonElements :
           /\ TextLike(e)
           /\ Extent(e) = 3 * LineHeight
           /\ Cardinality({n \in appended : n.owner = e}) = 3
           /\ {n.top[1] - (60 * (e + 1) - 60) : n \in {k \in appended : k.owner = e}}
                  = {0, LineHeight, 2 * LineHeight}

\* C17: for a text-like element with kind unset only the first rectangle is
\* inset on the left, by the leading gap; in the precision mode 'trim' the
\* first rectangle is shortened by the leading gap and the last by the
\* trailing gap, all others span the element's width, and in another mode
\* no rectangle is shortened.
C17_TrimMode ==
    \A e \in Elements :
        TextLike(e) /\ Kind(e) = Absent /\ Measured(e) =>
            LET lines == Len(Positions(e))
                trim == Get(resolveOptions(e), "skTT") = "trim"
                lead(i) == IF i = 1 THEN LeadGap ELSE 0
                trail(i) == IF i = lines THEN TrailGap ELSE 0
            IN  \A i \in 1..lines :
                    /\ Positions(e)[i].x = lead(i) + 1
                    /\ Positions(e)[i].w =
                           IF trim THEN size[e].w - lead(i) - trail(i)
                           ELSE size[e].w

\* C18: for an element measured with a width and a height the geometry
\* function returns the one rectangle (0, 0, width, height) exactly when the
\* element is a custom element, or has a kind other than 'text', or has the
\* kind 'text' and no text node; it returns nothing when the kind is unset
\* and the element is neither custom nor has text; otherwise it returns
\* rectangles of one line each; these are the rectangles recorded for an
\* element whose size the controller watches.
C18_Classification ==
    \A e \in Elements :
        Measured(e) =>
            LET box == [x |-> 0, y |-> 0, w |-> size[e].w, h |-> size[e].h]
            IN  /\ Generic(e) <=> Positions(e) = <<box>>
                /\ Kind(e) = Absent /\ ~customElement(e) /\ ~probablyText(e)
                       => Positions(e) = <<>>
                /\ TextLike(e) =>
                       /\ Len(Positions(e)) >= 1
                       /\ \A i \in 1..Len(Positions(e)) :
                              /\ Positions(e)[i].h = LineHeight
                              /\ Positions(e)[i].x > 0
                /\ /\ e \in DOMAIN skeletonElements
                   /\ e \in skeletonObserver.observed
                   /\ Due(Ctrl) = {}
                   => skeletonElements[e].positions = Positions(e)

\* An unmarked custom element without text is decorated with its full box.
C18_Witness ==
    /\ Enabled
    /\ Due(Ctrl) = {}
    /\ \E e \in DOMAIN skeletonElements :
           /\ customElement(e)
           /\ Kind(e) = Absent
           /\ ~probablyText(e)
           /\ size[e].h = 2 * LineHeight
           /\ skeletonElements[e].positions =
                  <<[x |-> 0, y |-> 0, w |-> Width, h |-> 2 * LineHeight]>>

(***************************************************************************)
(* Styling of the decoration nodes.                                         *)
(***************************************************************************)
\* The kind a decoration of e has: the resolved kind, or 'text' for the
\* rectangles of a text and 'round' for a box when the kind is unset.
DecorationKind(e) ==
    IF Kind(e) # Absent THEN Kind(e)
    ELSE IF TextLike(e) THEN "text" ELSE "round"

\* C19: when neither the element nor its tag's defaults set a scale-Y and
\* the global default is the shipped one, a decoration has the scale-Y 0.5
\* when its explicit or inferred kind is 'text' and 1 for every other kind.
C19_DefaultScaleY ==
    \A n \in appended :
        /\ "skSy" \notin DOMAIN dataset(n.owner)
        /\ "skSy" \notin DOMAIN elements(localName(n.owner))
        /\ defaults.skSy = Shipped.defaults.skSy
        => n.scale[2] = IF DecorationKind(n.owner) = "text" THEN "0.5" ELSE "1"

\* Lines of an unmarked text are decorated at half height.
C19_Witness ==
    /\ Enabled
    /\ Due(Ctrl) = {}
    /\ \E n \in appended :
           /\ Marker(n.owner) = Absent
           /\ TextLike(n.owner)
           /\ "skSy" \notin DOMAIN dataset(n.owner)
           /\ n.line = 2
           /\ n.scale[2] = "0.5"

\* C20: a width, height, translate, scale or transform-origin set by the
\* element's own data attributes is the value the decoration node is styled
\* with, for every value, a scale-Y of '1' on a text decoration included.
C20_ExplicitOverrides ==
    \A n \in appended :
        LET own == doc.els[n.owner + 1].data
            set(f) == f \in DOMAIN own
        IN  /\ set("skW") => n.width = <<0, own.skW>>
            /\ set("skH") => n.height = <<0, own.skH>>
            /\ set("skTx") => n.left[2] = own.skTx
            /\ set("skTy") => n.top[2] = own.skTy
            /\ set("skSx") => n.scale[1] = own.skSx
            /\ set("skSy") => n.scale[2] = own.skSy
            /\ set("skO") => n.transformOrigin = own.skO


(***************************************************************************)
(* Placement of the decorations of the container variant.                   *)
(***************************************************************************)
\* The observer's last callback saw the element at its present size.
Placed(e) == e \in container.observed /\ ~container.pending

\* C21: in float mode a decoration's left and top are the placeholder
\* rectangle's x and y plus the element's origin minus the container's, in
\* anchor mode the placeholder rectangle's x and y alone, each with the
\* translate option added; every child of the container is placed by the
\* one mode of the session. createSkeleton of skeleton.ts, which reads no
\* mode, always adds the element's origin minus the root's (taken here
\* with the defaults skeleton.ts ships).
C21_PlacementOffsets ==
    /\ mode \in {"anchor", "float"}
    /\ \A d \in container.children :
           Placed(d.owner) =>
               LET e == d.owner
                   el == getBoundingClientRect(e)
                   r == computeDecorations(e, el, containerOptions(e))[d.line]
                   dx == el.x - containerRect.x
                   dy == el.y - containerRect.y
               IN  /\ mode = "float"
                          => d.left[1] = r.x + dx /\ d.top[1] = r.y + dy
                   /\ mode = "anchor" => d.left[1] = r.x /\ d.top[1] = r.y
                   /\ d.left[2] = Get(containerOptions(e), "skTx")
                   /\ d.top[2] = Get(containerOptions(e), "skTy")
    /\ \A e \in Elements :
           LET el == getBoundingClientRect(e)
               root == getBoundingClientRect(Root)
               options == Spread(Shipped.defaults, dataset(e))
               positions == computePositions(e, options, el)
           IN  \A i \in DOMAIN positions :
                   LET n == createSkeleton(e, i, options, positions[i],
                                           el, root, debug)
                   IN  /\ n.left[1] = positions[i].x + (el.x - root.x)
                       /\ n.top[1] = positions[i].y + (el.y - root.y)

\* In anchor mode the second line of a translated text is placed.
C21_Witness ==
    /\ mode = "anchor"
    /\ \E d \in container.children :
           /\ Placed(d.owner)
           /\ d.line = 2
           /\ d.left[2] = "4px"
           /\ getBoundingClientRect(d.owner).x # containerRect.x


(***************************************************************************)
(* The overlay's bookkeeping.                                               *)
(***************************************************************************)
\* The overlay nodes of an element that are attached, and those of them
\* whose teardown has not begun.
Nodes(e) == {n \in DOMAIN overlays : overlays[n].owner = e}

Showing(e) == {n \in Nodes(e) : overlays[n].phase # "out"}

Fading(e) == Nodes(e) \ Showing(e)

\* C22: once the teardown of a decoration has begun, it is not the
\* decoration recorded for its element, and an element is observed for
\* size only while a decoration whose teardown has not begun is recorded
\* for it; a fade-out that has begun is never cancelled: the decoration
\* keeps fading until it leaves the document.
C22_TeardownBookkeeping ==
    [][/\ \A n \in DOMAIN overlays' :
              overlays'[n].phase = "out" => decorations'[overlays'[n].owner] # n
       /\ \A e \in resizeObserver'.observed :
              /\ decorations'[e] \in DOMAIN overlays'
              /\ overlays'[decorations'[e]].owner = e
              /\ overlays'[decorations'[e]].phase # "out"
       /\ \A n \in DOMAIN overlays :
              overlays[n].phase = "out" /\ n \in DOMAIN overlays'
                  => overlays'[n].phase = "out"]_vars

\* A decoration is fading out and its element neither tracked nor observed.
C22_Witness ==
    \E e \in Elements :
        /\ Fading(e) # {}
        /\ decorations[e] = 0
        /\ e \notin resizeObserver.observed
        /\ mutationObserver


\* C23: every element has at most one overlay decoration that is attached
\* and not fading out, and that decoration is the one recorded for it.
C23_OneOverlayPerElement ==
    \A e \in Elements :
        /\ Cardinality(Showing(e)) <= 1
        /\ Showing(e) # {} => decorations[e] \in Showing(e)

\* The controller is detached: the cleanup function was called.
Detached == ~mutationObserver

\* C24: once the cleanup function was called, no observer of the overlay
\* is connected and, when no fade-out is under way any more, no overlay
\* decoration is left in the document.
C24_CleanupRemovesOverlays ==
    Detached =>
        /\ records = <<>>
        /\ resizeObserver = [observed |-> {}, pending |-> {}]
        /\ (\A e \in Elements : Fading(e) = {}) => DOMAIN overlays = {}


\* C27: a decoration created for a re-enabled element while the old one
\* still fades out is the one recorded for the element; the end of a
\* fade-out removes the fading decoration and nothing else; the recorded
\* decoration stays attached and unfaded through every step after which
\* the element is enabled, has a box and the controller is attached.
C27_ReenableRace ==
    [][/\ \A e \in Elements :
              LET n == decorations[e]
              IN  /\ n \in DOMAIN overlays
                  /\ overlays[n].phase # "out"
                  /\ Overlaid(e)' /\ hasBox'[e] /\ mutationObserver'
                  => n \in DOMAIN overlays' /\ overlays'[n].phase # "out"
       /\ \A m \in DOMAIN overlays \ DOMAIN overlays' :
              /\ mutationObserver'
              /\ UNCHANGED <<records, resizeObserver>>
              => /\ overlays[m].phase = "out"
                 /\ overlays' = removed(overlays, m)
                 /\ UNCHANGED decorations]_vars

\* The race: an element's old decoration fades out while a new one is
\* recorded for it and shown.
C27_Witness ==
    \E e \in Elements :
        /\ Fading(e) # {}
        /\ decorations[e] \in Showing(e)
        /\ Overlaid(e)


\* C28: an element whose disabling the controller has observed, and none
\* of whose decorations is still fading out, has no overlay decoration
\* left in the document: every decoration created for it was removed.
C28_DisabledOverlaysLeave ==
    \A e \in Elements :
        /\ mutationObserver
        /\ records = <<>>
        /\ ~Overlaid(e)
        /\ Fading(e) = {}
        => Nodes(e) = {}


\* C29: when the size watcher reports an observed element without a box,
\* its callback leaves the element unobserved and without a recorded
\* decoration, and the decoration it had is removed or leaves without a
\* fade, whatever the element's data-ov reads.
C29_ZeroSizeTearsDown ==
    [][/\ mutationObserver'
       /\ records = <<>>
       /\ UNCHANGED records
       /\ resizeObserver.pending # {}
       /\ resizeObserver'.pending = {}
       => \A e \in resizeObserver.pending :
              ~hasBox[e] =>
                  /\ e \notin resizeObserver'.observed
                  /\ decorations'[e] = 0
                  /\ decorations[e] \in DOMAIN overlays' =>
                         /\ overlays'[decorations[e]].phase = "out"
                         /\ ~overlays'[decorations[e]].fade]_vars


(***************************************************************************)
(* Teardown of a controller that is torn down.                              *)
(***************************************************************************)
\* C25: the enablement callback reading a value other than 'true' while
\* the controller is Disabled, and the cleanup of a controller that was
\* attached without data-sk and has run no enablement callback, change no
\* inline style (the root's position, any element's opacity or visibility)
\* and attach or remove no decoration node.
C25_TornDownTeardownIsNoop ==
    [][\/ /\ Disabled
          /\ enabledObserver.queued
          /\ dataSk # "true"
          /\ enabledObserver' = [enabledObserver EXCEPT !.queued = FALSE]
       \/ /\ Disabled
          /\ observedSk = Absent
          /\ Disposed'
       => UNCHANGED <<stylePosition, opacity, visibility, appended>>]_vars


(***************************************************************************)
(* The per-tag table changing under an attached controller.                 *)
(***************************************************************************)
\* C26: every recomputation tracks exactly the elements that the
\* participation rules select under the per-tag table as it is then, the
\* table the options of those elements are resolved from, and that have
\* rectangles to show.
C26_RecomputationFollowsTable ==
    [][Recomputed =>
          \A e \in Elements :
              e \in DOMAIN skeletonElements'
                  <=> /\ matches(e, Selector, Root)
                      /\ Len(computePositions(e, resolveOptions(e),
                                              getBoundingClientRect(e))) # 0]_vars


(***************************************************************************)
(* Elements covered by an ancestor.                                         *)
(***************************************************************************)
\* x shows as a whole: it carries a marker other than 'none', or it is
\* unmarked and its tag has an implicit kind other than 'none'.
Covering(x) == Typed(x) \/ (Marker(x) = Absent /\ Tag(x) \in implicitShow)

\* C30: an unmarked element with a covering ancestor is no candidate and
\* gets no entry and no decoration.
C30_CoveredDescendantsExcluded ==
    \A e \in Elements :
        Marker(e) = Absent /\ (\E x \in Ancestors(e) : Covering(x))
            => e \notin candidates /\ ~Decorated(e)

(***************************************************************************)
(* The enable transition and the first size-watcher callback.               *)
(***************************************************************************)
\* C31: decoration nodes are attached only by a size-watcher callback; the
\* callback of the enablement watcher that reads 'true' attaches none, and
\* when it has run no decoration node exists under the root until a
\* size-watcher callback runs.
C31_NoNodesBeforeFirstCallback ==
    [][/\ appended' \subseteq appended \/ Recomputed
       /\ EnabledCallback /\ Enabled' => appended' = {}]_vars

(***************************************************************************)
(* Elements of the type hide.                                               *)
(***************************************************************************)
\* C32: while Enabled and not in debug mode, once the callbacks that are due
\* have run, a candidate of the resolved type hide that has a width and a
\* height has the inline opacity '0' and no decoration node; and the step
\* that ends the session (disable, removal, disposal) gives every element of
\* the type hide the inline opacity it had before it was hidden.
C32_HideIsHiddenAndRestored ==
    /\ [](/\ Enabled
          /\ ~debug
          /\ ~enabledObserver.queued
          /\ ~removedObserver.pending
          /\ \A o \in leaked \cup {skeletonObserver} : ~o.pending
          => \A e \in candidates :
                 Kind(e) = "hide" /\ Measured(e) =>
                     /\ opacity[e] = "0"
                     /\ \A n \in appended : n.owner # e)
    /\ [][Enabled /\ ~Enabled' =>
            \A e \in Elements :
                Kind(e) = "hide" => opacity'[e] = AuthoredOpacity[e]]_vars

(***************************************************************************)
(* Disposal of the Overlay component of solid.tsx.                          *)
(***************************************************************************)
\* C33: once the Overlay component is disposed, the function injectOverlay
\* returned for its parent has been called: neither the attribute watcher
\* nor the size watcher the component attached is connected.
C33_DisposalDetachesOverlay ==
    component.disposed =>
        /\ ~mutationObserver
        /\ resizeObserver.observed = {}

(***************************************************************************)
(* The size watchers of one root.                                           *)
(***************************************************************************)
\* C34: at most one ResizeObserver created by inject is connected at any
\* time, also after the enable signal was delivered again while Enabled; and
\* while the controller is Disabled none is connected.
C34_OneSessionWatcher ==
    /\ Cardinality({o \in leaked : Connected(o)})
           + (IF Connected(skeletonObserver) THEN 1 ELSE 0) <= 1
    /\ Disabled => \A o \in leaked \cup {skeletonObserver} : ~Connected(o)

(***************************************************************************)
(* The container-based overlay (overlay.ts): watched elements and anchors.  *)
(***************************************************************************)
\* C35: while overlay.ts's injectOverlay is attached, its ResizeObserver
\* observes an element exactly when the decorations map has an entry for
\* it, the entry is a decoration attached to the container, and every entry
\* due for the resize callback is of an observed element: the callback finds
\* a decoration for each of its targets.
C35_ObservedIffDecorated ==
    variant = "overlay.ts" /\ mutationObserver =>
        /\ \A e \in Elements :
               e \in resizeObserver.observed <=> decorations[e] # 0
        /\ \A e \in resizeObserver.pending :
               /\ e \in resizeObserver.observed
               /\ decorations[e] \in DOMAIN overlays
               /\ overlays[decorations[e]].owner = e

\* The root is decorated and observed; its child, still enabled, lost its
\* box, and the resize callback has removed its decoration and forgotten it.
C35_Witness ==
    /\ variant = "overlay.ts"
    /\ mutationObserver
    /\ decorations[Root] # 0
    /\ Root \in resizeObserver.observed
    /\ Overlaid(1)
    /\ ~hasBox[1]
    /\ created = 2
    /\ decorations[1] = 0
    /\ resizeObserver.pending = {}

\* C36: in overlay.ts, two distinct elements that have a decoration at the
\* same time carry different anchor names, and the decoration of an element
\* has that element's anchor name as its position-anchor.
C36_DistinctAnchorNames ==
    variant = "overlay.ts" =>
        \A e1, e2 \in {e \in Elements : decorations[e] \in DOMAIN overlays} :
            /\ overlays[decorations[e1]].positionAnchor = anchorName[e1]
            /\ e1 # e2 => anchorName[e1] # anchorName[e2]

(***************************************************************************)
(* The callbacks the controller causes by itself.                           *)
(***************************************************************************)
\* C37: a size-watcher callback of an Enabled controller leaves its watcher
\* with a callback due only when it made the watcher observe an element it
\* did not observe before, and it never stops observing one: with sizes and
\* markers unchanged, a chain of callbacks is no longer than the number of
\* elements and ends with nothing due.
C37_CallbackChainEnds ==
    [][Recomputed /\ Enabled' =>
          /\ skeletonObserver.observed \subseteq skeletonObserver'.observed
          /\ skeletonObserver'.pending =>
                 skeletonObserver'.observed # skeletonObserver.observed]_vars

\* Sizes are as they were at the enable signal, the decorated child is
\* observed, decorations are attached and no callback is due.
C37_Witness ==
    /\ Enabled
    /\ size = [e \in Elements |-> [w |-> Width, h |-> LineHeight]]
    /\ 1 \in skeletonObserver.observed
    /\ appended # {}
    /\ ~skeletonObserver.pending
    /\ ~removedObserver.pending

(***************************************************************************)
(* The kind inferred for the lines of a text.                               *)
(***************************************************************************)
\* C38: for a measured text-like element with kind unset, every rectangle of
\* the decomposition, the first and the later ones, has a left offset
\* greater than 0, and every decoration node of the element is styled as
\* kind 'text': the text radius, and the scale-Y 0.5 unless the resolved
\* scale-Y is another value than '1'; none has the radius of kind 'round'.
C38_EveryLineIsText ==
    \A e \in Elements :
        TextLike(e) /\ Kind(e) = Absent =>
            /\ Measured(e) => \A i \in DOMAIN Positions(e) : Positions(e)[i].x > 0
            /\ \A n \in appended :
                   n.owner = e =>
                       /\ n.borderRadius = radii.text
                       /\ n.borderRadius # radii[resolveOptions(e).skR]
                       /\ n.scale[2] =
                              IF resolveOptions(e).skSy = "1" THEN "0.5"
                              ELSE resolveOptions(e).skSy

\* A text of three lines with kind unset: the decorations of its second and
\* third line start 0.1px from the element's left edge and have the text
\* radius.
C38_Witness ==
    /\ Enabled
    /\ Due(Ctrl) = {}
    /\ TextLike(1)
    /\ Kind(1) = Absent
    /\ Len(Positions(1)) = 3
    /\ \A i \in {2, 3} :
           \E n \in appended :
               /\ n.owner = 1
               /\ n.line = i
               /\ n.left[1] = 1 + getBoundingClientRect(1).x - getBoundingClientRect(Root).x
               /\ n.borderRadius = radii.text
               /\ n.scale[2] = "0.5"
====
